---- MODULE Spec2Model ----
(***************************************************************************)
(* Narrative context engine of storyforge-backend: the in-memory story     *)
(* state store (StoryStateManager), the beat trigger evaluator             *)
(* (StoryBeatTriggerService) and the contextual retrieval engine           *)
(* (EnhancedRAGService).                                                   *)
(*                                                                         *)
(* Program strings are TLA+ strings; Chars gives the character sequence of *)
(* a string, and the string functions of the code (toLowerCase, includes,  *)
(* template concatenation) work on character sequences.                    *)
(***************************************************************************)
EXTENDS Integers, Sequences, FiniteSets, TLC

VARIABLES
  storyStates,   \* StoryStateManager.storyStates: Map<stateKey, StoryState>
  now,           \* the wall clock read by new Date()
  last,          \* the last call made on the services: its arguments and result
  calls,         \* the analyzeAndTriggerBeats calls in flight, each at one of its await points
  tracker        \* StoryStateTracker.state

vars == <<storyStates, now, last, calls, tracker>>

----------------------------------------------------------------------------
(* Bounds of the model *)

MaxTime == 1
MaxChoices == 1
MaxScenes == 3
MaxDeaths == 1
MaxTurns == 6
MaxStory == 17

----------------------------------------------------------------------------
(* Strings *)

Chars(s) ==
  CASE s = "can_access_shadow_gate" -> <<"c", "a", "n", "_", "a", "c", "c", "e", "s", "s", "_", "s", "h", "a", "d", "o", "w", "_", "g", "a", "t", "e">>
    [] s = "ww" -> <<"w", "w">>
    [] s = "ww-s" -> <<"w", "w", "-", "s">>
    [] s = "s-1" -> <<"s", "-", "1">>
    [] s = "1" -> <<"1">>
    [] s = "can_access_" -> <<"c", "a", "n", "_", "a", "c", "c", "e", "s", "s", "_">>
    [] s = "opening_choice" -> <<"o", "p", "e", "n", "i", "n", "g", "_", "c", "h", "o", "i", "c", "e">>
    [] s = "B1" -> <<"B", "1">>
    [] s = "whiskers_first_meeting" -> <<"w", "h", "i", "s", "k", "e", "r", "s", "_", "f", "i", "r", "s", "t", "_", "m", "e", "e", "t", "i", "n", "g">>
    [] s = "shadow_gate" -> <<"s", "h", "a", "d", "o", "w", "_", "g", "a", "t", "e">>
    [] s = "elder_oak_wisdom" -> <<"e", "l", "d", "e", "r", "_", "o", "a", "k", "_", "w", "i", "s", "d", "o", "m">>
    [] s = "whiskers" -> <<"w", "h", "i", "s", "k", "e", "r", "s">>
    [] s = "thornwick" -> <<"t", "h", "o", "r", "n", "w", "i", "c", "k">>
    [] s = "elder_oak" -> <<"e", "l", "d", "e", "r", "_", "o", "a", "k">>
    [] s = "location" -> <<"l", "o", "c", "a", "t", "i", "o", "n">>
    [] s = "shadow vale" -> <<"s", "h", "a", "d", "o", "w", " ", "v", "a", "l", "e">>
    [] s = "crystal chamber" -> <<"c", "r", "y", "s", "t", "a", "l", " ", "c", "h", "a", "m", "b", "e", "r">>
    [] s = "forgotten glade" -> <<"f", "o", "r", "g", "o", "t", "t", "e", "n", " ", "g", "l", "a", "d", "e">>
    [] s = "guidance" -> <<"g", "u", "i", "d", "a", "n", "c", "e">>
    [] s = "wisdom" -> <<"w", "i", "s", "d", "o", "m">>
    [] s = "help" -> <<"h", "e", "l", "p">>
    [] s = "advice" -> <<"a", "d", "v", "i", "c", "e">>
    [] s = "searching" -> <<"s", "e", "a", "r", "c", "h", "i", "n", "g">>
    [] s = "search" -> <<"s", "e", "a", "r", "c", "h">>
    [] s = "crystal" -> <<"c", "r", "y", "s", "t", "a", "l">>
    [] s = "lost" -> <<"l", "o", "s", "t">>
    [] s = "confused" -> <<"c", "o", "n", "f", "u", "s", "e", "d">>
    [] s = "exploration" -> <<"e", "x", "p", "l", "o", "r", "a", "t", "i", "o", "n">>
    [] s = "dialogue" -> <<"d", "i", "a", "l", "o", "g", "u", "e">>
    [] s = "decision" -> <<"d", "e", "c", "i", "s", "i", "o", "n">>
    [] s = "combat" -> <<"c", "o", "m", "b", "a", "t">>
    [] s = "look" -> <<"l", "o", "o", "k">>
    [] s = "examine" -> <<"e", "x", "a", "m", "i", "n", "e">>
    [] s = "investigate" -> <<"i", "n", "v", "e", "s", "t", "i", "g", "a", "t", "e">>
    [] s = "observe" -> <<"o", "b", "s", "e", "r", "v", "e">>
    [] s = "speak" -> <<"s", "p", "e", "a", "k">>
    [] s = "talk" -> <<"t", "a", "l", "k">>
    [] s = "ask" -> <<"a", "s", "k">>
    [] s = "call" -> <<"c", "a", "l", "l">>
    [] s = "say" -> <<"s", "a", "y">>
    [] s = "go" -> <<"g", "o">>
    [] s = "move" -> <<"m", "o", "v", "e">>
    [] s = "enter" -> <<"e", "n", "t", "e", "r">>
    [] s = "take" -> <<"t", "a", "k", "e">>
    [] s = "choose" -> <<"c", "h", "o", "o", "s", "e">>
    [] s = "attack" -> <<"a", "t", "t", "a", "c", "k">>
    [] s = "fight" -> <<"f", "i", "g", "h", "t">>
    [] s = "defend" -> <<"d", "e", "f", "e", "n", "d">>
    [] s = "cast" -> <<"c", "a", "s", "t">>
    [] s = "inspect" -> <<"i", "n", "s", "p", "e", "c", "t">>
    [] s = "study" -> <<"s", "t", "u", "d", "y">>
    [] s = "look for" -> <<"l", "o", "o", "k", " ", "f", "o", "r">>
    [] s = "find" -> <<"f", "i", "n", "d">>
    [] s = "seek" -> <<"s", "e", "e", "k">>
    [] s = "hunt" -> <<"h", "u", "n", "t">>
    [] s = "tell" -> <<"t", "e", "l", "l">>
    [] s = "walk" -> <<"w", "a", "l", "k">>
    [] s = "travel" -> <<"t", "r", "a", "v", "e", "l">>
    [] s = "proceed" -> <<"p", "r", "o", "c", "e", "e", "d">>
    [] s = "grab" -> <<"g", "r", "a", "b">>
    [] s = "pick up" -> <<"p", "i", "c", "k", " ", "u", "p">>
    [] s = "collect" -> <<"c", "o", "l", "l", "e", "c", "t">>
    [] s = "get" -> <<"g", "e", "t">>
    [] s = "examine door" -> <<"e", "x", "a", "m", "i", "n", "e", " ", "d", "o", "o", "r">>
    [] s = "choose path" -> <<"c", "h", "o", "o", "s", "e", " ", "p", "a", "t", "h">>
    [] s = "look around" -> <<"l", "o", "o", "k", " ", "a", "r", "o", "u", "n", "d">>
    [] s = "enter gate" -> <<"e", "n", "t", "e", "r", " ", "g", "a", "t", "e">>
    [] s = "seek wisdom" -> <<"s", "e", "e", "k", " ", "w", "i", "s", "d", "o", "m">>
    [] s = "I examine the door" -> <<"I", " ", "e", "x", "a", "m", "i", "n", "e", " ", "t", "h", "e", " ", "d", "o", "o", "r">>
    [] s = "I examine door" -> <<"I", " ", "e", "x", "a", "m", "i", "n", "e", " ", "d", "o", "o", "r">>
    [] s = "I search the hut" -> <<"I", " ", "s", "e", "a", "r", "c", "h", " ", "t", "h", "e", " ", "h", "u", "t">>
    [] s = "a crossroads location near shadow vale" -> <<"a", " ", "c", "r", "o", "s", "s", "r", "o", "a", "d", "s", " ", "l", "o", "c", "a", "t", "i", "o", "n", " ", "n", "e", "a", "r", " ", "s", "h", "a", "d", "o", "w", " ", "v", "a", "l", "e">>
    [] s = "a heavy oak door" -> <<"a", " ", "h", "e", "a", "v", "y", " ", "o", "a", "k", " ", "d", "o", "o", "r">>
    [] s = "a grey cat watches from a branch" -> <<"a", " ", "g", "r", "e", "y", " ", "c", "a", "t", " ", "w", "a", "t", "c", "h", "e", "s", " ", "f", "r", "o", "m", " ", "a", " ", "b", "r", "a", "n", "c", "h">>
    [] s = "the gate of thorns" -> <<"t", "h", "e", " ", "g", "a", "t", "e", " ", "o", "f", " ", "t", "h", "o", "r", "n", "s">>
    [] s = "the old tree offers counsel" -> <<"t", "h", "e", " ", "o", "l", "d", " ", "t", "r", "e", "e", " ", "o", "f", "f", "e", "r", "s", " ", "c", "o", "u", "n", "s", "e", "l">>
    [] s = "A heavy oak door" -> <<"A", " ", "h", "e", "a", "v", "y", " ", "o", "a", "k", " ", "d", "o", "o", "r">>
    [] s = "A path where whiskers hunts" -> <<"A", " ", "p", "a", "t", "h", " ", "w", "h", "e", "r", "e", " ", "w", "h", "i", "s", "k", "e", "r", "s", " ", "h", "u", "n", "t", "s">>
    [] s = "Crystal Legend" -> <<"C", "r", "y", "s", "t", "a", "l", " ", "L", "e", "g", "e", "n", "d">>
    [] s = "Elder Oak" -> <<"E", "l", "d", "e", "r", " ", "O", "a", "k">>
    [] s = "Forgotten Glade" -> <<"F", "o", "r", "g", "o", "t", "t", "e", "n", " ", "G", "l", "a", "d", "e">>
    [] s = "Hollow 01" -> <<"H", "o", "l", "l", "o", "w", " ", "0", "1">>
    [] s = "Hollow 02" -> <<"H", "o", "l", "l", "o", "w", " ", "0", "2">>
    [] s = "Hollow 03" -> <<"H", "o", "l", "l", "o", "w", " ", "0", "3">>
    [] s = "Hollow 04" -> <<"H", "o", "l", "l", "o", "w", " ", "0", "4">>
    [] s = "Hollow 05" -> <<"H", "o", "l", "l", "o", "w", " ", "0", "5">>
    [] s = "Hollow 06" -> <<"H", "o", "l", "l", "o", "w", " ", "0", "6">>
    [] s = "Hollow 07" -> <<"H", "o", "l", "l", "o", "w", " ", "0", "7">>
    [] s = "Hollow 08" -> <<"H", "o", "l", "l", "o", "w", " ", "0", "8">>
    [] s = "Hollow 09" -> <<"H", "o", "l", "l", "o", "w", " ", "0", "9">>
    [] s = "Hollow 10" -> <<"H", "o", "l", "l", "o", "w", " ", "1", "0">>
    [] s = "Hollow 11" -> <<"H", "o", "l", "l", "o", "w", " ", "1", "1">>
    [] s = "Hollow 12" -> <<"H", "o", "l", "l", "o", "w", " ", "1", "2">>
    [] s = "Hollow 13" -> <<"H", "o", "l", "l", "o", "w", " ", "1", "3">>
    [] s = "Hollow 14" -> <<"H", "o", "l", "l", "o", "w", " ", "1", "4">>
    [] s = "Shadow Vale" -> <<"S", "h", "a", "d", "o", "w", " ", "V", "a", "l", "e">>
    [] s = "The Oak Door" -> <<"T", "h", "e", " ", "O", "a", "k", " ", "D", "o", "o", "r">>
    [] s = "The crystal sleeps" -> <<"T", "h", "e", " ", "c", "r", "y", "s", "t", "a", "l", " ", "s", "l", "e", "e", "p", "s">>
    [] s = "The elder_oak is a tree" -> <<"T", "h", "e", " ", "e", "l", "d", "e", "r", "_", "o", "a", "k", " ", "i", "s", " ", "a", " ", "t", "r", "e", "e">>
    [] s = "Thornwick" -> <<"T", "h", "o", "r", "n", "w", "i", "c", "k">>
    [] s = "Thornwick hunts whiskers" -> <<"T", "h", "o", "r", "n", "w", "i", "c", "k", " ", "h", "u", "n", "t", "s", " ", "w", "h", "i", "s", "k", "e", "r", "s">>
    [] s = "Whiskers" -> <<"W", "h", "i", "s", "k", "e", "r", "s">>
    [] s = "Whiskers is a grey cat of the forest" -> <<"W", "h", "i", "s", "k", "e", "r", "s", " ", "i", "s", " ", "a", " ", "g", "r", "e", "y", " ", "c", "a", "t", " ", "o", "f", " ", "t", "h", "e", " ", "f", "o", "r", "e", "s", "t">>
    [] s = "Whiskers naps in the glade" -> <<"W", "h", "i", "s", "k", "e", "r", "s", " ", "n", "a", "p", "s", " ", "i", "n", " ", "t", "h", "e", " ", "g", "l", "a", "d", "e">>
    [] s = "Whiskers roams the whispering woods" -> <<"W", "h", "i", "s", "k", "e", "r", "s", " ", "r", "o", "a", "m", "s", " ", "t", "h", "e", " ", "w", "h", "i", "s", "p", "e", "r", "i", "n", "g", " ", "w", "o", "o", "d", "s">>
    [] s = "Whiskers was seen here" -> <<"W", "h", "i", "s", "k", "e", "r", "s", " ", "w", "a", "s", " ", "s", "e", "e", "n", " ", "h", "e", "r", "e">>
    [] s = "Whispering Woods" -> <<"W", "h", "i", "s", "p", "e", "r", "i", "n", "g", " ", "W", "o", "o", "d", "s">>
    [] s = "crystal_legend" -> <<"c", "r", "y", "s", "t", "a", "l", "_", "l", "e", "g", "e", "n", "d">>
    [] s = "forgotten_glade" -> <<"f", "o", "r", "g", "o", "t", "t", "e", "n", "_", "g", "l", "a", "d", "e">>
    [] s = "hollow_01" -> <<"h", "o", "l", "l", "o", "w", "_", "0", "1">>
    [] s = "hollow_02" -> <<"h", "o", "l", "l", "o", "w", "_", "0", "2">>
    [] s = "hollow_03" -> <<"h", "o", "l", "l", "o", "w", "_", "0", "3">>
    [] s = "hollow_04" -> <<"h", "o", "l", "l", "o", "w", "_", "0", "4">>
    [] s = "hollow_05" -> <<"h", "o", "l", "l", "o", "w", "_", "0", "5">>
    [] s = "hollow_06" -> <<"h", "o", "l", "l", "o", "w", "_", "0", "6">>
    [] s = "hollow_07" -> <<"h", "o", "l", "l", "o", "w", "_", "0", "7">>
    [] s = "hollow_08" -> <<"h", "o", "l", "l", "o", "w", "_", "0", "8">>
    [] s = "hollow_09" -> <<"h", "o", "l", "l", "o", "w", "_", "0", "9">>
    [] s = "hollow_10" -> <<"h", "o", "l", "l", "o", "w", "_", "1", "0">>
    [] s = "hollow_11" -> <<"h", "o", "l", "l", "o", "w", "_", "1", "1">>
    [] s = "hollow_12" -> <<"h", "o", "l", "l", "o", "w", "_", "1", "2">>
    [] s = "hollow_13" -> <<"h", "o", "l", "l", "o", "w", "_", "1", "3">>
    [] s = "hollow_14" -> <<"h", "o", "l", "l", "o", "w", "_", "1", "4">>
    [] s = "shadow_vale" -> <<"s", "h", "a", "d", "o", "w", "_", "v", "a", "l", "e">>
    [] s = "whispering_woods" -> <<"w", "h", "i", "s", "p", "e", "r", "i", "n", "g", "_", "w", "o", "o", "d", "s">>
    [] s = "the" -> <<"t", "h", "e">>
    [] s = "a" -> <<"a">>
    [] s = "an" -> <<"a", "n">>
    [] s = "and" -> <<"a", "n", "d">>
    [] s = "or" -> <<"o", "r">>
    [] s = "but" -> <<"b", "u", "t">>
    [] s = "in" -> <<"i", "n">>
    [] s = "on" -> <<"o", "n">>
    [] s = "at" -> <<"a", "t">>
    [] s = "to" -> <<"t", "o">>
    [] s = "for" -> <<"f", "o", "r">>
    [] s = "of" -> <<"o", "f">>
    [] s = "with" -> <<"w", "i", "t", "h">>
    [] s = "by" -> <<"b", "y">>
    [] s = "is" -> <<"i", "s">>
    [] s = "are" -> <<"a", "r", "e">>
    [] s = "was" -> <<"w", "a", "s">>
    [] s = "were" -> <<"w", "e", "r", "e">>
    [] s = "be" -> <<"b", "e">>
    [] s = "been" -> <<"b", "e", "e", "n">>
    [] s = "being" -> <<"b", "e", "i", "n", "g">>
    [] s = "have" -> <<"h", "a", "v", "e">>
    [] s = "has" -> <<"h", "a", "s">>
    [] s = "had" -> <<"h", "a", "d">>
    [] s = "do" -> <<"d", "o">>
    [] s = "does" -> <<"d", "o", "e", "s">>
    [] s = "did" -> <<"d", "i", "d">>
    [] s = "will" -> <<"w", "i", "l", "l">>
    [] s = "would" -> <<"w", "o", "u", "l", "d">>
    [] s = "should" -> <<"s", "h", "o", "u", "l", "d">>
    [] s = "could" -> <<"c", "o", "u", "l", "d">>
    [] s = "may" -> <<"m", "a", "y">>
    [] s = "might" -> <<"m", "i", "g", "h", "t">>
    [] s = "must" -> <<"m", "u", "s", "t">>
    [] s = "can" -> <<"c", "a", "n">>
    [] s = "i" -> <<"i">>
    [] s = "you" -> <<"y", "o", "u">>
    [] s = "he" -> <<"h", "e">>
    [] s = "she" -> <<"s", "h", "e">>
    [] s = "it" -> <<"i", "t">>
    [] s = "we" -> <<"w", "e">>
    [] s = "they" -> <<"t", "h", "e", "y">>
    [] s = "me" -> <<"m", "e">>
    [] s = "him" -> <<"h", "i", "m">>
    [] s = "her" -> <<"h", "e", "r">>
    [] s = "us" -> <<"u", "s">>
    [] s = "them" -> <<"t", "h", "e", "m">>
    [] s = "connection" -> <<"c", "o", "n", "n", "e", "c", "t", "i", "o", "n">>
    [] s = "connected" -> <<"c", "o", "n", "n", "e", "c", "t", "e", "d">>
    [] s = "border" -> <<"b", "o", "r", "d", "e", "r">>
    [] s = "path" -> <<"p", "a", "t", "h">>
    [] s = "entrance" -> <<"e", "n", "t", "r", "a", "n", "c", "e">>
    [] s = "exit" -> <<"e", "x", "i", "t">>
    [] s = "whiskers cat" -> <<"w", "h", "i", "s", "k", "e", "r", "s", " ", "c", "a", "t">>
    [] s = "the oak door" -> <<"t", "h", "e", " ", "o", "a", "k", " ", "d", "o", "o", "r">>
    [] s = "says" -> <<"s", "a", "y", "s">>
    [] s = "speaks" -> <<"s", "p", "e", "a", "k", "s">>
    [] s = "tells" -> <<"t", "e", "l", "l", "s">>
    [] s = "whispers" -> <<"w", "h", "i", "s", "p", "e", "r", "s">>
    [] s = "shouts" -> <<"s", "h", "o", "u", "t", "s">>
    [] s = "meet" -> <<"m", "e", "e", "t">>
    [] s = "encounter" -> <<"e", "n", "c", "o", "u", "n", "t", "e", "r">>
    [] s = "see" -> <<"s", "e", "e">>
    [] s = "arrive at" -> <<"a", "r", "r", "i", "v", "e", " ", "a", "t">>
    [] s = "reach" -> <<"r", "e", "a", "c", "h">>
    [] s = "find yourself in" -> <<"f", "i", "n", "d", " ", "y", "o", "u", "r", "s", "e", "l", "f", " ", "i", "n">>
    [] s = "You are in" -> <<"Y", "o", "u", " ", "a", "r", "e", " ", "i", "n">>
    [] s = "You find yourself in" -> <<"Y", "o", "u", " ", "f", "i", "n", "d", " ", "y", "o", "u", "r", "s", "e", "l", "f", " ", "i", "n">>
    [] s = "You stand in" -> <<"Y", "o", "u", " ", "s", "t", "a", "n", "d", " ", "i", "n">>
    [] s = "reveal" -> <<"r", "e", "v", "e", "a", "l">>
    [] s = "discover" -> <<"d", "i", "s", "c", "o", "v", "e", "r">>
    [] s = "uncover" -> <<"u", "n", "c", "o", "v", "e", "r">>
    [] s = "learn" -> <<"l", "e", "a", "r", "n">>
    [] s = "realize" -> <<"r", "e", "a", "l", "i", "z", "e">>
    [] s = "understand" -> <<"u", "n", "d", "e", "r", "s", "t", "a", "n", "d">>
    [] s = "secret" -> <<"s", "e", "c", "r", "e", "t">>
    [] s = "mystery" -> <<"m", "y", "s", "t", "e", "r", "y">>
    [] s = "clue" -> <<"c", "l", "u", "e">>
    [] s = "evidence" -> <<"e", "v", "i", "d", "e", "n", "c", "e">>
    [] s = "truth" -> <<"t", "r", "u", "t", "h">>
    [] s = "battle" -> <<"b", "a", "t", "t", "l", "e">>
    [] s = "enemy" -> <<"e", "n", "e", "m", "y">>
    [] s = "threat" -> <<"t", "h", "r", "e", "a", "t">>
    [] s = "danger" -> <<"d", "a", "n", "g", "e", "r">>
    [] s = "trap" -> <<"t", "r", "a", "p">>
    [] s = "ambush" -> <<"a", "m", "b", "u", "s", "h">>
    [] s = "pursue" -> <<"p", "u", "r", "s", "u", "e">>
    [] s = "chase" -> <<"c", "h", "a", "s", "e">>
    [] s = "fear" -> <<"f", "e", "a", "r">>
    [] s = "panic" -> <<"p", "a", "n", "i", "c">>
    [] s = "urgent" -> <<"u", "r", "g", "e", "n", "t">>
    [] s = "quickly" -> <<"q", "u", "i", "c", "k", "l", "y">>
    [] s = "suddenly" -> <<"s", "u", "d", "d", "e", "n", "l", "y">>
    [] s = "suspicious" -> <<"s", "u", "s", "p", "i", "c", "i", "o", "u", "s">>
    [] s = "mysterious" -> <<"m", "y", "s", "t", "e", "r", "i", "o", "u", "s">>
    [] s = "strange" -> <<"s", "t", "r", "a", "n", "g", "e">>
    [] s = "unsettling" -> <<"u", "n", "s", "e", "t", "t", "l", "i", "n", "g">>
    [] s = "concerning" -> <<"c", "o", "n", "c", "e", "r", "n", "i", "n", "g">>
    [] s = "worried" -> <<"w", "o", "r", "r", "i", "e", "d">>
    [] s = "peaceful" -> <<"p", "e", "a", "c", "e", "f", "u", "l">>
    [] s = "calm" -> <<"c", "a", "l", "m">>
    [] s = "safe" -> <<"s", "a", "f", "e">>
    [] s = "rest" -> <<"r", "e", "s", "t">>
    [] s = "comfortable" -> <<"c", "o", "m", "f", "o", "r", "t", "a", "b", "l", "e">>
    [] s = "relaxed" -> <<"r", "e", "l", "a", "x", "e", "d">>
    [] s = "major discovery" -> <<"m", "a", "j", "o", "r", " ", "d", "i", "s", "c", "o", "v", "e", "r", "y">>
    [] s = "plot twist" -> <<"p", "l", "o", "t", " ", "t", "w", "i", "s", "t">>
    [] s = "character death" -> <<"c", "h", "a", "r", "a", "c", "t", "e", "r", " ", "d", "e", "a", "t", "h">>
    [] s = "new location" -> <<"n", "e", "w", " ", "l", "o", "c", "a", "t", "i", "o", "n">>
    [] s = "important revelation" -> <<"i", "m", "p", "o", "r", "t", "a", "n", "t", " ", "r", "e", "v", "e", "l", "a", "t", "i", "o", "n">>
    [] s = "conflict resolution" -> <<"c", "o", "n", "f", "l", "i", "c", "t", " ", "r", "e", "s", "o", "l", "u", "t", "i", "o", "n">>
    [] s = "new threat" -> <<"n", "e", "w", " ", "t", "h", "r", "e", "a", "t">>
    [] s = "use" -> <<"u", "s", "e">>
    [] s = "You walk on" -> <<"Y", "o", "u", " ", "w", "a", "l", "k", " ", "o", "n">>
    [] s = "Danger! An attack" -> <<"D", "a", "n", "g", "e", "r", "!", " ", "A", "n", " ", "a", "t", "t", "a", "c", "k">>
    [] s = "A strange calm before the attack" -> <<"A", " ", "s", "t", "r", "a", "n", "g", "e", " ", "c", "a", "l", "m", " ", "b", "e", "f", "o", "r", "e", " ", "t", "h", "e", " ", "a", "t", "t", "a", "c", "k">>
    [] s = "A calm but strange place" -> <<"A", " ", "c", "a", "l", "m", " ", "b", "u", "t", " ", "s", "t", "r", "a", "n", "g", "e", " ", "p", "l", "a", "c", "e">>
    [] s = "The forest is quiet" -> <<"T", "h", "e", " ", "f", "o", "r", "e", "s", "t", " ", "i", "s", " ", "q", "u", "i", "e", "t">>
    [] s = "You discover a clue" -> <<"Y", "o", "u", " ", "d", "i", "s", "c", "o", "v", "e", "r", " ", "a", " ", "c", "l", "u", "e">>
    [] s = "You enter the Shadow Vale and meet Whiskers" -> <<"Y", "o", "u", " ", "e", "n", "t", "e", "r", " ", "t", "h", "e", " ", "S", "h", "a", "d", "o", "w", " ", "V", "a", "l", "e", " ", "a", "n", "d", " ", "m", "e", "e", "t", " ", "W", "h", "i", "s", "k", "e", "r", "s">>
    [] s = "look at the tree" -> <<"l", "o", "o", "k", " ", "a", "t", " ", "t", "h", "e", " ", "t", "r", "e", "e">>
    [] s = "examine the rock" -> <<"e", "x", "a", "m", "i", "n", "e", " ", "t", "h", "e", " ", "r", "o", "c", "k">>
    [] s = "look under the log" -> <<"l", "o", "o", "k", " ", "u", "n", "d", "e", "r", " ", "t", "h", "e", " ", "l", "o", "g">>
    [] s = "go north" -> <<"g", "o", " ", "n", "o", "r", "t", "h">>
    [] s = "wait" -> <<"w", "a", "i", "t">>
    [] s = "?!" -> <<"?", "!">>
    [] s = "(.*" -> <<"(", ".", "*">>
    [] s = "whiskers( [cat" -> <<"w", "h", "i", "s", "k", "e", "r", "s", "(", " ", "[", "c", "a", "t">>
    [] s = "" -> <<>>
    [] s = "smash torch" -> <<"s", "m", "a", "s", "h", " ", "t", "o", "r", "c", "h">>
    [] s = "break torch" -> <<"b", "r", "e", "a", "k", " ", "t", "o", "r", "c", "h">>
    [] s = "destroy torch" -> <<"d", "e", "s", "t", "r", "o", "y", " ", "t", "o", "r", "c", "h">>
    [] s = "hit torch" -> <<"h", "i", "t", " ", "t", "o", "r", "c", "h">>
    [] s = "kick torch" -> <<"k", "i", "c", "k", " ", "t", "o", "r", "c", "h">>
    [] s = "smash stone" -> <<"s", "m", "a", "s", "h", " ", "s", "t", "o", "n", "e">>
    [] s = "break wall" -> <<"b", "r", "e", "a", "k", " ", "w", "a", "l", "l">>
    [] s = "destroy stones" -> <<"d", "e", "s", "t", "r", "o", "y", " ", "s", "t", "o", "n", "e", "s">>
    [] s = "hit wall" -> <<"h", "i", "t", " ", "w", "a", "l", "l">>
    [] s = "punch stones" -> <<"p", "u", "n", "c", "h", " ", "s", "t", "o", "n", "e", "s">>
    [] s = "desperate" -> <<"d", "e", "s", "p", "e", "r", "a", "t", "e">>
    [] s = "scream" -> <<"s", "c", "r", "e", "a", "m">>
    [] s = "give up" -> <<"g", "i", "v", "e", " ", "u", "p">>
    [] s = "break down" -> <<"b", "r", "e", "a", "k", " ", "d", "o", "w", "n">>
    [] s = "I smash torch in anger" -> <<"I", " ", "s", "m", "a", "s", "h", " ", "t", "o", "r", "c", "h", " ", "i", "n", " ", "a", "n", "g", "e", "r">>
    [] s = "duo" -> <<"d", "u", "o">>
    [] s = "whiskers_returns" -> <<"w", "h", "i", "s", "k", "e", "r", "s", "_", "r", "e", "t", "u", "r", "n", "s">>

LowerChar(c) ==
  CASE c = "A" -> "a"
    [] c = "B" -> "b"
    [] c = "C" -> "c"
    [] c = "D" -> "d"
    [] c = "E" -> "e"
    [] c = "F" -> "f"
    [] c = "G" -> "g"
    [] c = "H" -> "h"
    [] c = "I" -> "i"
    [] c = "J" -> "j"
    [] c = "K" -> "k"
    [] c = "L" -> "l"
    [] c = "M" -> "m"
    [] c = "N" -> "n"
    [] c = "O" -> "o"
    [] c = "P" -> "p"
    [] c = "Q" -> "q"
    [] c = "R" -> "r"
    [] c = "S" -> "s"
    [] c = "T" -> "t"
    [] c = "U" -> "u"
    [] c = "V" -> "v"
    [] c = "W" -> "w"
    [] c = "X" -> "x"
    [] c = "Y" -> "y"
    [] c = "Z" -> "z"
    [] OTHER -> c

\* String.prototype.toLowerCase
toLowerCase(cs) == [i \in 1..Len(cs) |-> LowerChar(cs[i])]

\* String.prototype.includes: needle occurs in hay as a contiguous run
includes(hay, needle) ==
  \E i \in 0..(Len(hay) - Len(needle)) : SubSeq(hay, i + 1, i + Len(needle)) = needle

\* Array.prototype.includes
Contains(seq, x) == \E i \in 1..Len(seq) : seq[i] = x

\* Array.prototype.filter(id => id !== x)
RECURSIVE Without(_, _)
Without(seq, x) ==
  IF seq = <<>> THEN <<>>
  ELSE IF Head(seq) = x THEN Without(Tail(seq), x)
       ELSE <<Head(seq)>> \o Without(Tail(seq), x)

\* Map.set / object property assignment
Put(m, k, v) == [x \in (DOMAIN m) \cup {k} |-> IF x = k THEN v ELSE m[x]]

\* An empty Map / object literal {}
EmptyMap == <<>>

----------------------------------------------------------------------------
(* Story State Store: StoryStateManager *)

StoryIds == {"ww", "ww-s"}
SessionIds == {"s-1", "1"}

\* The (storyId, sessionId) pairs the callers use
Pairs == {<<"ww", "s-1">>, <<"ww-s", "1">>, <<"ww", "1">>}

DefaultLocation == "whispering_woods"
Locations == {"whispering_woods", "shadow_vale"}

\* const stateKey = `${storyId}-${sessionId}`
stateKey(storyId, sessionId) == Chars(storyId) \o <<"-">> \o Chars(sessionId)

KeyOf(p) == stateKey(p[1], p[2])

\* The default StoryState built by getOrCreateStoryState
NewState(storyId, sessionId, initialLocation, t) ==
  [ storyId |-> storyId,
    sessionId |-> sessionId,
    currentLocation |-> initialLocation,
    completedBeats |-> <<>>,
    activeBeats |-> <<"opening_choice">>,
    discoveredCharacters |-> <<>>,
    knownLocations |-> <<initialLocation>>,
    playerChoices |-> <<>>,
    relationshipStates |-> EmptyMap,
    inventoryItems |-> <<>>,
    revealedLore |-> <<>>,
    storyFlags |-> EmptyMap,
    metadata |-> [lastUpdated |-> t, totalPlayTime |-> 0, majorDecisions |-> 0] ]

\* getOrCreateStoryState without the has(stateKey) test: the entry is always rebuilt
StoreAfterGetOrCreate_AlwaysCreates(store, storyId, sessionId, initialLocation, t) ==
  Put(store, stateKey(storyId, sessionId),
      NewState(storyId, sessionId, initialLocation, t))

\* The store after getOrCreateStoryState(storyId, sessionId, initialLocation)
StoreAfterGetOrCreate(store, storyId, sessionId, initialLocation, t) ==
  IF stateKey(storyId, sessionId) \in DOMAIN store
    THEN store
    ELSE Put(store, stateKey(storyId, sessionId),
             NewState(storyId, sessionId, initialLocation, t))

\* updateStoryState merging the updates onto a default state instead of currentState
MergeState_OntoDefaults(currentState, updates, t) ==
  LET fresh == NewState(currentState.storyId, currentState.sessionId,
                        currentState.currentLocation, t)
  IN  [ f \in (DOMAIN currentState) \cup (DOMAIN updates) \cup {"metadata"} |->
          IF f = "metadata"
            THEN [currentState.metadata EXCEPT !.lastUpdated = t]
            ELSE IF f \in DOMAIN updates THEN updates[f]
            ELSE IF f \in DOMAIN fresh THEN fresh[f] ELSE currentState[f] ]

\* { ...currentState, ...updates, metadata: { ...currentState.metadata, lastUpdated: new Date() } }
MergeState(currentState, updates, t) ==
  [ f \in (DOMAIN currentState) \cup (DOMAIN updates) \cup {"metadata"} |->
      IF f = "metadata"
        THEN [currentState.metadata EXCEPT !.lastUpdated = t]
        ELSE IF f \in DOMAIN updates THEN updates[f] ELSE currentState[f] ]

\* The store after updateStoryState(storyId, sessionId, updates)
StoreAfterUpdate(store, storyId, sessionId, updates, t) ==
  LET s1 == StoreAfterGetOrCreate(store, storyId, sessionId, DefaultLocation, t)
      key == stateKey(storyId, sessionId)
  IN  Put(s1, key, MergeState(s1[key], updates, t))

\* The in-place mutations recordPlayerChoice makes on the stored object
ChoiceRecorded(state, beatId, choice, consequence, t) ==
  [ state EXCEPT
      !.playerChoices = Append(@, [beatId |-> beatId, choice |-> choice,
                                   consequence |-> consequence, timestamp |-> t]),
      !.completedBeats = IF Contains(@, beatId) THEN @ ELSE Append(@, beatId),
      !.activeBeats = Without(@, beatId),
      !.metadata = [@ EXCEPT !.majorDecisions = @ + 1] ]

\* The store after recordPlayerChoice(storyId, sessionId, beatId, choice, consequence):
\* the state object is mutated in place and then passed to updateStoryState
StoreAfterRecordChoice(store, storyId, sessionId, beatId, choice, consequence, t) ==
  LET s1 == StoreAfterGetOrCreate(store, storyId, sessionId, DefaultLocation, t)
      key == stateKey(storyId, sessionId)
      mutated == ChoiceRecorded(s1[key], beatId, choice, consequence, t)
      s2 == Put(s1, key, mutated)
  IN  StoreAfterUpdate(s2, storyId, sessionId, mutated, t)

\* cleanup comparing with age >= maxAge
keysToDelete_AtLeastMaxAge(store, maxAge, t) ==
  {k \in DOMAIN store : t - store[k].metadata.lastUpdated >= maxAge}

\* The keys cleanup(maxAge) deletes
keysToDelete(store, maxAge, t) ==
  {k \in DOMAIN store : t - store[k].metadata.lastUpdated > maxAge}

\* The store after cleanup(maxAge)
StoreAfterCleanup(store, maxAge, t) ==
  [k \in (DOMAIN store) \ keysToDelete(store, maxAge, t) |-> store[k]]

----------------------------------------------------------------------------
(* Beat Trigger Evaluator: StoryBeatTriggerService *)

\* A value for null / undefined
Null == "null"

\* The story_beats.json of story "ww", in declaration order.  An absent optional
\* list (triggers, prerequisites, dialogue_triggers, choices) is the empty list:
\* the code treats both alike.  choices holds each choice's leads_to.
StoryBeats ==
  << [ id |-> "opening_choice", type |-> "decision_point",
       description |-> "a crossroads location near shadow vale",
       triggers |-> <<"choose path">>, dialogue_triggers |-> <<>>,
       prerequisites |-> <<>>, repeatable |-> FALSE,
       choices |-> <<"shadow_gate">> ],
     [ id |-> "B1", type |-> "decision_point",
       description |-> "a heavy oak door",
       triggers |-> <<"examine door">>, dialogue_triggers |-> <<>>,
       prerequisites |-> <<>>, repeatable |-> FALSE,
       choices |-> <<>> ],
     [ id |-> "whiskers_first_meeting", type |-> "character_introduction",
       description |-> "a grey cat watches from a branch",
       triggers |-> <<"look around", "search">>, dialogue_triggers |-> <<"searching">>,
       prerequisites |-> <<"B1">>, repeatable |-> FALSE,
       choices |-> <<>> ],
     [ id |-> "shadow_gate", type |-> "major_conflict",
       description |-> "the gate of thorns",
       triggers |-> <<"enter gate">>, dialogue_triggers |-> <<>>,
       prerequisites |-> <<"can_access_shadow_gate">>, repeatable |-> FALSE,
       choices |-> <<>> ],
     [ id |-> "elder_oak_wisdom", type |-> "exposition_lore",
       description |-> "the old tree offers counsel",
       triggers |-> <<"seek wisdom">>, dialogue_triggers |-> <<>>,
       prerequisites |-> <<>>, repeatable |-> TRUE,
       choices |-> <<>> ] >>

\* The story_beats.json of story "duo": two beats that introduce the same character
DuoBeats ==
  << [ id |-> "whiskers_first_meeting", type |-> "character_introduction",
       description |-> "a grey cat watches from a branch",
       triggers |-> <<"look around", "search">>, dialogue_triggers |-> <<"searching">>,
       prerequisites |-> <<>>, repeatable |-> FALSE,
       choices |-> <<>> ],
     [ id |-> "whiskers_returns", type |-> "character_introduction",
       description |-> "a grey cat watches from a branch",
       triggers |-> <<"look around", "search">>, dialogue_triggers |-> <<"searching">>,
       prerequisites |-> <<>>, repeatable |-> FALSE,
       choices |-> <<>> ] >>

\* The player actions and action types the callers send
PlayerActions ==
  {"I examine the door", "I examine door", "", "seek wisdom", "choose path", "search"}
ActionTypes == {Null, "exploration"}

\* Actions of punctuation and of regular-expression metacharacters
OddActions == {"?!", "(.*", "whiskers( [cat"}

\* loadStoryBeats: the cached beats of a story; a story without a beats file has none
loadStoryBeats(storyId) ==
  IF storyId = "ww" THEN StoryBeats ELSE IF storyId = "duo" THEN DuoBeats ELSE <<>>

\* The keyword classes of matchesActionType
actionTypeMap(actionType) ==
  CASE actionType = "exploration" -> <<"look", "search", "examine", "investigate", "observe">>
    [] actionType = "dialogue" -> <<"speak", "talk", "ask", "call", "say">>
    [] actionType = "decision" -> <<"go", "move", "enter", "take", "choose">>
    [] actionType = "combat" -> <<"attack", "fight", "defend", "cast">>
    [] OTHER -> <<>>

\* matchesActionType(trigger, actionType); actionType is given as its lowercase name
matchesActionType(trigger, actionType) ==
  \E i \in 1..Len(actionTypeMap(actionType)) :
    includes(toLowerCase(Chars(trigger)), Chars(actionTypeMap(actionType)[i]))

\* The synonym table of semanticActionMatch, in the order of Object.entries
synonyms ==
  << <<"look", <<"examine", "observe", "inspect", "study">> >>,
     <<"search", <<"look for", "find", "seek", "hunt">> >>,
     <<"speak", <<"talk", "say", "tell", "ask">> >>,
     <<"move", <<"go", "walk", "travel", "proceed">> >>,
     <<"take", <<"grab", "pick up", "collect", "get">> >> >>

\* semanticActionMatch(trigger, action): the trigger as written, the action lowercased
semanticActionMatch(trigger, actionLower) ==
  \E i \in 1..Len(synonyms) :
    /\ includes(Chars(trigger), Chars(synonyms[i][1]))
    /\ \E j \in 1..Len(synonyms[i][2]) : includes(actionLower, Chars(synonyms[i][2][j]))

\* matchesActionTriggers without the test that the action contains the trigger
matchesActionTriggers_NoDirectMatch(triggers, playerAction, actionType) ==
  LET actionLower == toLowerCase(Chars(playerAction))
  IN  \E i \in 1..Len(triggers) :
        LET triggerLower == toLowerCase(Chars(triggers[i]))
        IN  \/ includes(triggerLower, actionLower)
            \/ (actionType # Null /\ matchesActionType(triggers[i], actionType))
            \/ semanticActionMatch(triggers[i], actionLower)

\* matchesActionTriggers without the test that the trigger contains the action
matchesActionTriggers_ActionContainsOnly(triggers, playerAction, actionType) ==
  LET actionLower == toLowerCase(Chars(playerAction))
  IN  \E i \in 1..Len(triggers) :
        LET triggerLower == toLowerCase(Chars(triggers[i]))
        IN  \/ includes(actionLower, triggerLower)
            \/ (actionType # Null /\ matchesActionType(triggers[i], actionType))
            \/ semanticActionMatch(triggers[i], actionLower)

\* matchesActionTriggers without the action type match
matchesActionTriggers_IgnoresActionType(triggers, playerAction, actionType) ==
  LET actionLower == toLowerCase(Chars(playerAction))
  IN  \E i \in 1..Len(triggers) :
        LET triggerLower == toLowerCase(Chars(triggers[i]))
        IN  \/ includes(actionLower, triggerLower)
            \/ includes(triggerLower, actionLower)
            \/ semanticActionMatch(triggers[i], actionLower)

\* matchesActionTriggers(triggers, playerAction, actionType)
matchesActionTriggers(triggers, playerAction, actionType) ==
  LET actionLower == toLowerCase(Chars(playerAction))
  IN  \E i \in 1..Len(triggers) :
        LET triggerLower == toLowerCase(Chars(triggers[i]))
        IN  \/ includes(actionLower, triggerLower)
            \/ includes(triggerLower, actionLower)
            \/ (actionType # Null /\ matchesActionType(triggers[i], actionType))
            \/ semanticActionMatch(triggers[i], actionLower)

\* matchesDialogueTriggers(triggers, playerAction)
matchesDialogueTriggers(triggers, playerAction) ==
  LET actionLower == toLowerCase(Chars(playerAction))
  IN  \E i \in 1..Len(triggers) :
        LET triggerLower == toLowerCase(Chars(triggers[i]))
        IN  \/ (includes(triggerLower, Chars("searching")) /\ includes(actionLower, Chars("search")))
            \/ (includes(triggerLower, Chars("crystal")) /\ includes(actionLower, Chars("crystal")))
            \/ (includes(triggerLower, Chars("lost"))
                  /\ (includes(actionLower, Chars("lost")) \/ includes(actionLower, Chars("confused"))))
            \/ includes(actionLower, triggerLower)

\* matchesActionTriggers and matchesDialogueTriggers are pure functions of strings:
\* their values over the beats and actions of the model, computed once
TriggerLists == {StoryBeats[i].triggers : i \in 1..Len(StoryBeats)}
DialogueTriggerLists == {StoryBeats[i].dialogue_triggers : i \in 1..Len(StoryBeats)}

actionTriggerTable ==
  [ triggers \in TriggerLists, a \in PlayerActions \cup OddActions, ty \in ActionTypes |->
      matchesActionTriggers(triggers, a, ty) ]

dialogueTriggerTable ==
  [ triggers \in DialogueTriggerLists, a \in PlayerActions \cup OddActions |->
      matchesDialogueTriggers(triggers, a) ]

\* extractCharacterIdFromBeat
extractCharacterIdFromBeat(beat) ==
  LET beatIdLower == toLowerCase(Chars(beat.id))
  IN  IF includes(beatIdLower, Chars("whiskers")) THEN "whiskers"
      ELSE IF includes(beatIdLower, Chars("thornwick")) THEN "thornwick"
      ELSE IF includes(beatIdLower, Chars("elder_oak")) THEN "elder_oak"
      ELSE Null

\* extractLocationIdFromBeat
extractLocationIdFromBeat(beat) ==
  LET description == toLowerCase(Chars(beat.description))
  IN  IF includes(description, Chars("shadow vale")) THEN "shadow_vale"
      ELSE IF includes(description, Chars("crystal chamber")) THEN "crystal_chamber"
      ELSE IF includes(description, Chars("forgotten glade")) THEN "forgotten_glade"
      ELSE Null

\* checkLocationBasedTriggers: the action is matched as written, not lowercased
checkLocationBasedTriggers(beat, storyState, playerAction) ==
  IF beat.id = "elder_oak_wisdom"
    THEN /\ storyState.currentLocation = "whispering_woods"
         /\ \/ includes(Chars(playerAction), Chars("guidance"))
            \/ includes(Chars(playerAction), Chars("wisdom"))
            \/ includes(Chars(playerAction), Chars("help"))
            \/ includes(Chars(playerAction), Chars("advice"))
    ELSE TRUE

\* A prerequisite test that every prerequisite passes
prereqSatisfied_Always(storyState, prereq) == TRUE

\* storyState.completedBeats.includes(prereq) || storyState.storyFlags[prereq] === true
prereqSatisfied(storyState, prereq) ==
  \/ Contains(storyState.completedBeats, prereq)
  \/ (Chars(prereq) \in DOMAIN storyState.storyFlags
        /\ storyState.storyFlags[Chars(prereq)] = TRUE)

\* shouldTriggerBeat without the test on completedBeats
shouldTriggerBeat_IgnoresCompleted(beat, storyState, playerAction, actionType) ==
  IF Len(beat.prerequisites) > 0
          /\ ~(\A i \in 1..Len(beat.prerequisites) :
                 prereqSatisfied(storyState, beat.prerequisites[i])) THEN FALSE
  ELSE IF Len(beat.triggers) > 0
          /\ ~actionTriggerTable[beat.triggers, playerAction, actionType] THEN FALSE
  ELSE IF Len(beat.dialogue_triggers) > 0
          /\ ~dialogueTriggerTable[beat.dialogue_triggers, playerAction] THEN FALSE
  ELSE IF beat.type = "character_introduction"
          /\ extractCharacterIdFromBeat(beat) # Null
          /\ Contains(storyState.discoveredCharacters, extractCharacterIdFromBeat(beat)) THEN FALSE
  ELSE IF beat.type = "exposition_lore"
          THEN checkLocationBasedTriggers(beat, storyState, playerAction)
  ELSE TRUE

\* shouldTriggerBeat(beat, storyState, playerAction, actionType)
shouldTriggerBeat(beat, storyState, playerAction, actionType) ==
  IF Contains(storyState.completedBeats, beat.id) /\ ~beat.repeatable THEN FALSE
  ELSE IF Len(beat.prerequisites) > 0
          /\ ~(\A i \in 1..Len(beat.prerequisites) :
                 prereqSatisfied(storyState, beat.prerequisites[i])) THEN FALSE
  ELSE IF Len(beat.triggers) > 0
          /\ ~actionTriggerTable[beat.triggers, playerAction, actionType] THEN FALSE
  ELSE IF Len(beat.dialogue_triggers) > 0
          /\ ~dialogueTriggerTable[beat.dialogue_triggers, playerAction] THEN FALSE
  ELSE IF beat.type = "character_introduction"
          /\ extractCharacterIdFromBeat(beat) # Null
          /\ Contains(storyState.discoveredCharacters, extractCharacterIdFromBeat(beat)) THEN FALSE
  ELSE IF beat.type = "exposition_lore"
          THEN checkLocationBasedTriggers(beat, storyState, playerAction)
  ELSE TRUE

\* contextModifications.storyFlags[`can_access_${choice.leads_to}`] = true, for each choice
RECURSIVE flagsWithChoices(_, _)
flagsWithChoices(flags, choices) ==
  IF choices = <<>> THEN flags
  ELSE flagsWithChoices(
         IF Head(choices) # Null
           THEN Put(flags, Chars("can_access_") \o Chars(Head(choices)), TRUE)
           ELSE flags,
         Tail(choices))

\* Consequences that push a repeatable beat on newActiveBeats without the includes test
applyBeatConsequences_PushesActiveAgain(beat, mods, storyState) ==
  [ newActiveBeats |->
      IF beat.repeatable THEN Append(mods.newActiveBeats, beat.id)
      ELSE Without(mods.newActiveBeats, beat.id),
    completedBeats |->
      IF beat.repeatable THEN mods.completedBeats ELSE Append(mods.completedBeats, beat.id),
    discoveredCharacters |-> mods.discoveredCharacters,
    knownLocations |-> mods.knownLocations,
    storyFlags |-> flagsWithChoices(mods.storyFlags, beat.choices) ]

\* Consequences that push the character on discoveredCharacters without the includes test
applyBeatConsequences_PushesCharacterAgain(beat, mods, storyState) ==
  [ newActiveBeats |->
      IF beat.repeatable
        THEN IF Contains(mods.newActiveBeats, beat.id)
               THEN mods.newActiveBeats
               ELSE Append(mods.newActiveBeats, beat.id)
        ELSE Without(mods.newActiveBeats, beat.id),
    completedBeats |->
      IF beat.repeatable THEN mods.completedBeats ELSE Append(mods.completedBeats, beat.id),
    discoveredCharacters |->
      IF beat.type = "character_introduction" /\ extractCharacterIdFromBeat(beat) # Null
        THEN Append(mods.discoveredCharacters, extractCharacterIdFromBeat(beat))
        ELSE mods.discoveredCharacters,
    knownLocations |-> mods.knownLocations,
    storyFlags |-> flagsWithChoices(mods.storyFlags, beat.choices) ]

\* applyBeatConsequences(beat, contextModifications, storyState): the modifications after it
applyBeatConsequences(beat, mods, storyState) ==
  LET characterId == extractCharacterIdFromBeat(beat)
      locationId == extractLocationIdFromBeat(beat)
      discovered ==
        IF beat.type = "character_introduction" /\ characterId # Null
             /\ ~Contains(mods.discoveredCharacters, characterId)
          THEN Append(mods.discoveredCharacters, characterId)
          ELSE mods.discoveredCharacters
      known ==
        IF (includes(Chars(beat.description), Chars("location")) \/ beat.type = "exposition_lore")
             /\ locationId # Null /\ ~Contains(mods.knownLocations, locationId)
          THEN Append(mods.knownLocations, locationId)
          ELSE mods.knownLocations
  IN  [ newActiveBeats |->
          IF beat.repeatable
            THEN IF Contains(mods.newActiveBeats, beat.id)
                   THEN mods.newActiveBeats
                   ELSE Append(mods.newActiveBeats, beat.id)
            ELSE Without(mods.newActiveBeats, beat.id),
        completedBeats |->
          IF beat.repeatable THEN mods.completedBeats
          ELSE Append(mods.completedBeats, beat.id),
        discoveredCharacters |-> discovered,
        knownLocations |-> known,
        storyFlags |-> flagsWithChoices(mods.storyFlags, beat.choices) ]

\* A loop that stops at the first beat that triggers
evaluateBeats_FirstMatchOnly(beats, i, storyState, playerAction, actionType, acc) ==
  LET passing == {k \in i..Len(beats) :
                    shouldTriggerBeat(beats[k], storyState, playerAction, actionType)}
  IN  IF passing = {} THEN acc
      ELSE LET first == CHOOSE k \in passing : \A j \in passing : k <= j
           IN  [ triggeredBeats |-> Append(acc.triggeredBeats, beats[first].id),
                 contextModifications |->
                   applyBeatConsequences(beats[first], acc.contextModifications, storyState) ]

\* A loop that checks each beat against the modifications accumulated so far in the turn
RECURSIVE evaluateBeats_AgainstAccumulated(_, _, _, _, _, _)
evaluateBeats_AgainstAccumulated(beats, i, storyState, playerAction, actionType, acc) ==
  IF i > Len(beats) THEN acc
  ELSE evaluateBeats_AgainstAccumulated(beats, i + 1, storyState, playerAction, actionType,
         IF shouldTriggerBeat(beats[i],
              [storyState EXCEPT !.completedBeats = acc.contextModifications.completedBeats,
                                 !.discoveredCharacters = acc.contextModifications.discoveredCharacters,
                                 !.storyFlags = acc.contextModifications.storyFlags],
              playerAction, actionType)
           THEN [ triggeredBeats |-> Append(acc.triggeredBeats, beats[i].id),
                  contextModifications |->
                    applyBeatConsequences(beats[i], acc.contextModifications, storyState) ]
           ELSE acc)

\* The loop of analyzeAndTriggerBeats over beats[i..]: every beat is checked against
\* the state read at the start; acc holds triggeredBeats and contextModifications
RECURSIVE evaluateBeats(_, _, _, _, _, _)
evaluateBeats(beats, i, storyState, playerAction, actionType, acc) ==
  IF i > Len(beats) THEN acc
  ELSE evaluateBeats(beats, i + 1, storyState, playerAction, actionType,
         IF shouldTriggerBeat(beats[i], storyState, playerAction, actionType)
           THEN [ triggeredBeats |-> Append(acc.triggeredBeats, beats[i].id),
                  contextModifications |->
                    applyBeatConsequences(beats[i], acc.contextModifications, storyState) ]
           ELSE acc)

\* The TriggerResult of analyzeAndTriggerBeats on the state it read
triggerResult(storyId, storyState, playerAction, actionType) ==
  evaluateBeats(loadStoryBeats(storyId), 1, storyState, playerAction, actionType,
    [ triggeredBeats |-> <<>>,
      contextModifications |->
        [ newActiveBeats |-> storyState.activeBeats,
          completedBeats |-> storyState.completedBeats,
          discoveredCharacters |-> storyState.discoveredCharacters,
          knownLocations |-> storyState.knownLocations,
          storyFlags |-> storyState.storyFlags ] ])

\* The partial state without completedBeats: the completions are not committed
turnUpdates_WithoutCompleted(result) ==
  [ activeBeats |-> result.contextModifications.newActiveBeats,
    discoveredCharacters |-> result.contextModifications.discoveredCharacters,
    knownLocations |-> result.contextModifications.knownLocations,
    storyFlags |-> result.contextModifications.storyFlags ]

\* The partial state analyzeAndTriggerBeats passes to updateStoryState
turnUpdates(result) ==
  [ activeBeats |-> result.contextModifications.newActiveBeats,
    completedBeats |-> result.contextModifications.completedBeats,
    discoveredCharacters |-> result.contextModifications.discoveredCharacters,
    knownLocations |-> result.contextModifications.knownLocations,
    storyFlags |-> result.contextModifications.storyFlags ]

\* The store after analyzeAndTriggerBeats(storyId, sessionId, playerAction, actionType)
StoreAfterAnalyze(store, storyId, sessionId, playerAction, actionType, t) ==
  LET s1 == StoreAfterGetOrCreate(store, storyId, sessionId, DefaultLocation, t)
      result == triggerResult(storyId, s1[stateKey(storyId, sessionId)], playerAction, actionType)
  IN  IF Len(result.triggeredBeats) > 0
        THEN StoreAfterUpdate(s1, storyId, sessionId, turnUpdates(result), t)
        ELSE s1

----------------------------------------------------------------------------
(* Contextual Retrieval Engine: EnhancedRAGService *)

Letters ==
  { "a", "b", "c", "d", "e", "f", "g", "h", "i", "j", "k", "l", "m",
    "n", "o", "p", "q", "r", "s", "t", "u", "v", "w", "x", "y", "z" }
Digits == {"0", "1", "2", "3", "4", "5", "6", "7", "8", "9"}

\* \w of a regular expression, on lowercased text
WordChars == Letters \cup Digits \cup {"_"}

\* \s of a regular expression
Whitespace == {" "}

\* query.split(/\s+/), less the empty strings a leading or trailing run leaves
\* (the length filter of extractKeywords drops them): cur is the token being read
RECURSIVE splitWhitespace(_, _)
splitWhitespace(cs, cur) ==
  IF cs = <<>> THEN (IF cur = <<>> THEN <<>> ELSE <<cur>>)
  ELSE IF Head(cs) \in Whitespace
         THEN (IF cur = <<>> THEN <<>> ELSE <<cur>>) \o splitWhitespace(Tail(cs), <<>>)
         ELSE splitWhitespace(Tail(cs), Append(cur, Head(cs)))

stopWords ==
  { "the", "a", "an", "and", "or", "but", "in", "on", "at", "to", "for", "of", "with",
    "by", "is", "are", "was", "were", "be", "been", "being", "have", "has", "had", "do",
    "does", "did", "will", "would", "should", "could", "may", "might", "must", "can",
    "i", "you", "he", "she", "it", "we", "they", "me", "him", "her", "us", "them" }

stopWordChars == {Chars(w) : w \in stopWords}

\* The filters without the test /^[a-z]+$/: any word longer than 2 that is not a
\* stop word is kept
RECURSIVE keepKeywords_AnyCharacters(_)
keepKeywords_AnyCharacters(words) ==
  IF words = <<>> THEN <<>>
  ELSE LET w == Head(words)
       IN  (IF Len(w) > 2 /\ w \notin stopWordChars THEN <<w>> ELSE <<>>)
             \o keepKeywords_AnyCharacters(Tail(words))

\* Array.prototype.filter
RECURSIVE keepKeywords(_)
keepKeywords(words) ==
  IF words = <<>> THEN <<>>
  ELSE LET w == Head(words)
       IN  (IF /\ Len(w) > 2
               /\ w \notin stopWordChars
               /\ \A i \in 1..Len(w) : w[i] \in Letters
              THEN <<w>> ELSE <<>>) \o keepKeywords(Tail(words))

\* extractKeywords(query): words longer than 2, not stop words, of letters a-z only
extractKeywords(query) == keepKeywords(splitWhitespace(toLowerCase(query), <<>>))

\* new RegExp(word) and new RegExp(`\\b${word}\\b`) throw a SyntaxError for a
\* pattern that is not well formed: a group or a class left open, a closing
\* parenthesis with no group open, a quantifier with nothing to repeat
regExpThrows(word) ==
  \/ (word # <<>> /\ word[1] \in {"*", "+", "?"})
  \/ \E i \in 1..Len(word) :
       \/ (word[i] = "(" /\ \A j \in (i + 1)..Len(word) : word[j] # ")")
       \/ (word[i] = ")" /\ \A j \in 1..(i - 1) : word[j] # "(")
       \/ (word[i] = "[" /\ \A j \in (i + 1)..Len(word) : word[j] # "]")

\* (content.match(new RegExp(`\\b${word}\\b`, 'g')) || []).length, word of letters:
\* the occurrences of word with no word character right before or after
exactMatches(content, word) ==
  Cardinality({ i \in 1..(Len(content) - Len(word) + 1) :
    /\ SubSeq(content, i, i + Len(word) - 1) = word
    /\ (i = 1 \/ content[i - 1] \notin WordChars)
    /\ (i + Len(word) > Len(content) \/ content[i + Len(word)] \notin WordChars) })

\* (content.match(new RegExp(word, 'g')) || []).length: the matches found from
\* position i on, left to right, each search resuming after the last match
RECURSIVE substringMatches(_, _, _)
substringMatches(content, word, i) ==
  IF i + Len(word) - 1 > Len(content) THEN 0
  ELSE IF SubSeq(content, i, i + Len(word) - 1) = word
         THEN 1 + substringMatches(content, word, i + Len(word))
         ELSE substringMatches(content, word, i + 1)

\* No boost for a match in the name or title
nameMatch_Never(doc, word) == FALSE

\* doc.metadata.name?.toLowerCase().includes(word) || doc.metadata.title?....includes(word)
nameMatch(doc, word) ==
  \/ (doc.metadata.name # Null /\ includes(toLowerCase(Chars(doc.metadata.name)), word))
  \/ (doc.metadata.title # Null /\ includes(toLowerCase(Chars(doc.metadata.title)), word))

\* The score one query word adds in calculateBaseScore
wordScore(doc, word) ==
  LET content == toLowerCase(Chars(doc.content))
      exact == exactMatches(content, word)
      partial == substringMatches(content, word, 1) - exact
  IN  exact * 3 + partial * 1 + (IF nameMatch(doc, word) THEN 5 ELSE 0)

\* calculateBaseScore(doc, queryWords)
RECURSIVE calculateBaseScore(_, _)
calculateBaseScore(doc, queryWords) ==
  IF queryWords = <<>> THEN 0
  ELSE wordScore(doc, Head(queryWords)) + calculateBaseScore(doc, Tail(queryWords))

\* getRelationshipBonus(level)
getRelationshipBonus(level) ==
  CASE level = "allied" -> 12
    [] level = "friendly" -> 8
    [] level = "romance" -> 10
    [] level = "met" -> 5
    [] level = "hostile" -> 7
    [] level = "unknown" -> 0
    [] OTHER -> 0

\* A relationship score that takes 10 off a discovered character
calculateRelationshipScore_PenalisesDiscovered(doc, storyState) ==
  (IF doc.metadata.type = "character"
        /\ Contains(storyState.discoveredCharacters, doc.metadata.id) THEN 0 - 10 ELSE 0)
  + (IF doc.metadata.type = "location"
        /\ doc.metadata.id = storyState.currentLocation THEN 15 ELSE 0)

\* calculateRelationshipScore(doc, storyState, queryWords); queryWords is not read
calculateRelationshipScore(doc, storyState) ==
  (IF doc.metadata.type = "character"
        /\ Contains(storyState.discoveredCharacters, doc.metadata.id) THEN 10 ELSE 0)
  + (IF doc.metadata.type = "location"
        /\ Contains(storyState.knownLocations, doc.metadata.id) THEN 8 ELSE 0)
  + (IF doc.metadata.type = "location"
        /\ doc.metadata.id = storyState.currentLocation THEN 15 ELSE 0)
  + (IF doc.metadata.type = "character"
        /\ doc.metadata.id \in DOMAIN storyState.relationshipStates
       THEN getRelationshipBonus(
              storyState.relationshipStates[doc.metadata.id].relationshipLevel)
       ELSE 0)
  + (IF doc.metadata.type = "story_beat"
        /\ Contains(storyState.completedBeats, doc.metadata.id) THEN 5 ELSE 0)
  + (IF doc.metadata.type = "lore"
        /\ Contains(storyState.revealedLore, doc.metadata.id) THEN 6 ELSE 0)

Min(a, b) == IF a < b THEN a ELSE b

\* A story relevance score without the progression bonus
calculateStoryRelevanceScore_NoProgression(doc, storyState) ==
  (IF doc.metadata.type = "story_beat"
        /\ Contains(storyState.activeBeats, doc.metadata.id) THEN 20 ELSE 0)
  + doc.metadata.storyWeight

\* calculateStoryRelevanceScore(doc, storyState); an absent storyWeight is 0
calculateStoryRelevanceScore(doc, storyState) ==
  Min(Len(storyState.completedBeats) * 2, 10)
  + (IF doc.metadata.type = "story_beat"
        /\ Contains(storyState.activeBeats, doc.metadata.id) THEN 20 ELSE 0)
  + doc.metadata.storyWeight

\* getTotalScore(result)
getTotalScore(result) ==
  result.relevanceScore + result.relationshipScore + result.storyRelevanceScore

\* hasCharacterRelationship(char1Id, char2Id, content)
hasCharacterRelationship(char1Id, char2Id, content) ==
  \/ includes(toLowerCase(Chars(content)), toLowerCase(Chars(char1Id)))
  \/ includes(toLowerCase(Chars(content)), toLowerCase(Chars(char2Id)))

connectionKeywords == <<"connection", "connected", "border", "path", "entrance", "exit">>

\* hasLocationConnection(loc1Id, loc2Id, content)
hasLocationConnection(loc1Id, loc2Id, content) ==
  /\ \E i \in 1..Len(connectionKeywords) :
       includes(toLowerCase(Chars(content)), Chars(connectionKeywords[i]))
  /\ \/ includes(toLowerCase(Chars(content)), toLowerCase(Chars(loc1Id)))
     \/ includes(toLowerCase(Chars(content)), toLowerCase(Chars(loc2Id)))

\* result.metadata.name?.toLowerCase() || ''
nameOrEmpty(metadata) ==
  IF metadata.name = Null THEN <<>> ELSE toLowerCase(Chars(metadata.name))

\* The body of the loop of findRelatedDocuments: doc is pushed for this result
isRelated(metadata, doc) ==
  /\ doc.metadata.id # metadata.id
  /\ \/ /\ metadata.type = "character" /\ doc.metadata.type = "character"
        /\ hasCharacterRelationship(metadata.id, doc.metadata.id, doc.content)
     \/ /\ metadata.type = "location" /\ doc.metadata.type = "location"
        /\ hasLocationConnection(metadata.id, doc.metadata.id, doc.content)
     \/ /\ metadata.type = "character" /\ doc.metadata.type = "location"
        /\ includes(toLowerCase(Chars(doc.content)), nameOrEmpty(metadata))
     \/ /\ metadata.type = "story_beat"
        /\ includes(toLowerCase(Chars(doc.content)), nameOrEmpty(metadata))

\* One character and one location whose content mentions the character
ScenarioCorpus ==
  << [ content |-> "Whiskers is a grey cat of the forest",
       metadata |-> [ type |-> "character", id |-> "whiskers", name |-> "Whiskers", title |-> Null,
                      category |-> "characters", storyWeight |-> 0 ] ],
     [ content |-> "Whiskers roams the whispering woods",
       metadata |-> [ type |-> "location", id |-> "whispering_woods", name |-> "Whispering Woods", title |-> Null,
                      category |-> "locations", storyWeight |-> 0 ] ] >>

\* A corpus of every document type, some with a storyWeight
StoryCorpus ==
  << [ content |-> "Whiskers is a grey cat of the forest",
       metadata |-> [ type |-> "character", id |-> "whiskers", name |-> "Whiskers", title |-> Null,
                      category |-> "characters", storyWeight |-> 10 ] ],
     [ content |-> "The elder_oak is a tree",
       metadata |-> [ type |-> "character", id |-> "elder_oak", name |-> "Elder Oak", title |-> Null,
                      category |-> "characters", storyWeight |-> 0 ] ],
     [ content |-> "Thornwick hunts whiskers",
       metadata |-> [ type |-> "character", id |-> "thornwick", name |-> "Thornwick", title |-> Null,
                      category |-> "characters", storyWeight |-> 5 ] ],
     [ content |-> "Whiskers naps in the glade",
       metadata |-> [ type |-> "location", id |-> "forgotten_glade", name |-> "Forgotten Glade", title |-> Null,
                      category |-> "locations", storyWeight |-> 0 ] ],
     [ content |-> "A path where whiskers hunts",
       metadata |-> [ type |-> "location", id |-> "shadow_vale", name |-> "Shadow Vale", title |-> Null,
                      category |-> "locations", storyWeight |-> 0 ] ],
     [ content |-> "A heavy oak door",
       metadata |-> [ type |-> "story_beat", id |-> "B1", name |-> "The Oak Door", title |-> Null,
                      category |-> "story_beats", storyWeight |-> 8 ] ],
     [ content |-> "The crystal sleeps",
       metadata |-> [ type |-> "lore", id |-> "crystal_legend", name |-> Null, title |-> "Crystal Legend",
                      category |-> "history", storyWeight |-> -3 ] ] >>

\* One character and fourteen locations that mention it
LargeCorpus ==
  << [ content |-> "Whiskers is a grey cat of the forest",
       metadata |-> [ type |-> "character", id |-> "whiskers", name |-> "Whiskers", title |-> Null,
                      category |-> "characters", storyWeight |-> 0 ] ],
     [ content |-> "Whiskers was seen here",
       metadata |-> [ type |-> "location", id |-> "hollow_01", name |-> "Hollow 01", title |-> Null,
                      category |-> "locations", storyWeight |-> 0 ] ],
     [ content |-> "Whiskers was seen here",
       metadata |-> [ type |-> "location", id |-> "hollow_02", name |-> "Hollow 02", title |-> Null,
                      category |-> "locations", storyWeight |-> 0 ] ],
     [ content |-> "Whiskers was seen here",
       metadata |-> [ type |-> "location", id |-> "hollow_03", name |-> "Hollow 03", title |-> Null,
                      category |-> "locations", storyWeight |-> 0 ] ],
     [ content |-> "Whiskers was seen here",
       metadata |-> [ type |-> "location", id |-> "hollow_04", name |-> "Hollow 04", title |-> Null,
                      category |-> "locations", storyWeight |-> 0 ] ],
     [ content |-> "Whiskers was seen here",
       metadata |-> [ type |-> "location", id |-> "hollow_05", name |-> "Hollow 05", title |-> Null,
                      category |-> "locations", storyWeight |-> 0 ] ],
     [ content |-> "Whiskers was seen here",
       metadata |-> [ type |-> "location", id |-> "hollow_06", name |-> "Hollow 06", title |-> Null,
                      category |-> "locations", storyWeight |-> 0 ] ],
     [ content |-> "Whiskers was seen here",
       metadata |-> [ type |-> "location", id |-> "hollow_07", name |-> "Hollow 07", title |-> Null,
                      category |-> "locations", storyWeight |-> 0 ] ],
     [ content |-> "Whiskers was seen here",
       metadata |-> [ type |-> "location", id |-> "hollow_08", name |-> "Hollow 08", title |-> Null,
                      category |-> "locations", storyWeight |-> 0 ] ],
     [ content |-> "Whiskers was seen here",
       metadata |-> [ type |-> "location", id |-> "hollow_09", name |-> "Hollow 09", title |-> Null,
                      category |-> "locations", storyWeight |-> 0 ] ],
     [ content |-> "Whiskers was seen here",
       metadata |-> [ type |-> "location", id |-> "hollow_10", name |-> "Hollow 10", title |-> Null,
                      category |-> "locations", storyWeight |-> 0 ] ],
     [ content |-> "Whiskers was seen here",
       metadata |-> [ type |-> "location", id |-> "hollow_11", name |-> "Hollow 11", title |-> Null,
                      category |-> "locations", storyWeight |-> 0 ] ],
     [ content |-> "Whiskers was seen here",
       metadata |-> [ type |-> "location", id |-> "hollow_12", name |-> "Hollow 12", title |-> Null,
                      category |-> "locations", storyWeight |-> 0 ] ],
     [ content |-> "Whiskers was seen here",
       metadata |-> [ type |-> "location", id |-> "hollow_13", name |-> "Hollow 13", title |-> Null,
                      category |-> "locations", storyWeight |-> 0 ] ],
     [ content |-> "Whiskers was seen here",
       metadata |-> [ type |-> "location", id |-> "hollow_14", name |-> "Hollow 14", title |-> Null,
                      category |-> "locations", storyWeight |-> 0 ] ] >>

\* The corpora, queries and result limits the callers pass
Corpora == {ScenarioCorpus, StoryCorpus, LargeCorpus}
Queries == {"whiskers", "whiskers cat", "", "the oak door"}
MaxResultsInputs == {1, 3, 8, 13}

\* The player actions a turn sends as userQuery
PromptQueries == {"I examine door", "search", "choose path", ""}

AllDocuments == UNION {{c[i] : i \in 1..Len(c)} : c \in Corpora}

\* calculateBaseScore and the relation test of findRelatedDocuments are pure
\* functions of strings: their values over the documents and queries of the
\* model, computed once
baseScoreTable ==
  [ doc \in AllDocuments, query \in Queries \cup PromptQueries \cup OddActions |->
      calculateBaseScore(doc, extractKeywords(toLowerCase(Chars(query)))) ]

relatedTable ==
  [ metadata \in {d.metadata : d \in AllDocuments}, doc \in AllDocuments |->
      isRelated(metadata, doc) ]

\* The EnhancedContext built for a document: its three scores
scored(doc, relevanceScore, storyState) ==
  [ content |-> doc.content,
    relevanceScore |-> relevanceScore,
    relationshipScore |-> calculateRelationshipScore(doc, storyState),
    storyRelevanceScore |-> calculateStoryRelevanceScore(doc, storyState),
    metadata |-> doc.metadata ]

\* documents.map(doc => ...): every document scored against the query
scoredResults(documents, query, storyState) ==
  [ i \in 1..Len(documents) |->
      scored(documents[i], baseScoreTable[documents[i], query], storyState) ]

\* No filter: every scored document is kept
positiveOnly_KeepsAll(results) == results

\* A filter that keeps the documents that total zero
RECURSIVE positiveOnly_KeepsZero(_)
positiveOnly_KeepsZero(results) ==
  IF results = <<>> THEN <<>>
  ELSE (IF getTotalScore(Head(results)) >= 0 THEN <<Head(results)>> ELSE <<>>)
         \o positiveOnly_KeepsZero(Tail(results))

\* .filter(result => this.getTotalScore(result) > 0)
RECURSIVE positiveOnly(_)
positiveOnly(results) ==
  IF results = <<>> THEN <<>>
  ELSE (IF getTotalScore(Head(results)) > 0 THEN <<Head(results)>> ELSE <<>>)
         \o positiveOnly(Tail(results))

\* An insertion that puts x before the entries that score as much: ties reversed
RECURSIVE insertByTotal_TiesReversed(_, _)
insertByTotal_TiesReversed(sorted, x) ==
  IF sorted = <<>> THEN <<x>>
  ELSE IF getTotalScore(Head(sorted)) > getTotalScore(x)
         THEN <<Head(sorted)>> \o insertByTotal_TiesReversed(Tail(sorted), x)
         ELSE <<x>> \o sorted

\* One insertion of the stable sort: x goes after every entry that scores as much
RECURSIVE insertByTotal(_, _)
insertByTotal(sorted, x) ==
  IF sorted = <<>> THEN <<x>>
  ELSE IF getTotalScore(Head(sorted)) >= getTotalScore(x)
         THEN <<Head(sorted)>> \o insertByTotal(Tail(sorted), x)
         ELSE <<x>> \o sorted

\* .sort((a, b) => this.getTotalScore(b) - this.getTotalScore(a)): stable, descending
RECURSIVE sortByTotal(_)
sortByTotal(results) ==
  IF results = <<>> THEN <<>>
  ELSE insertByTotal(sortByTotal(SubSeq(results, 1, Len(results) - 1)),
                     results[Len(results)])

\* Array.prototype.slice(0, n)
slice(seq, n) == SubSeq(seq, 1, Min(n, Len(seq)))

\* An includedIds that never holds an id
includedIds_Empty(expandedResults) == {}

\* includedIds.has(id): includedIds holds the ids of expandedResults
includedIds(expandedResults) ==
  {expandedResults[i].metadata.id : i \in 1..Len(expandedResults)}

\* The loops of expandRelatedContext from result r, document d on: a related
\* document not yet included is appended while fewer than 12 entries are held
\* (with 12 entries held the remaining iterations append nothing)
RECURSIVE expandFrom(_, _, _, _, _, _)
expandFrom(results, r, allDocuments, d, storyState, expandedResults) ==
  IF r > Len(results) \/ Len(expandedResults) >= 12 THEN expandedResults
  ELSE IF d > Len(allDocuments)
         THEN expandFrom(results, r + 1, allDocuments, 1, storyState, expandedResults)
  ELSE expandFrom(results, r, allDocuments, d + 1, storyState,
         IF /\ relatedTable[results[r].metadata, allDocuments[d]]
            /\ allDocuments[d].metadata.id \notin includedIds(expandedResults)
            /\ Len(expandedResults) < 12
           THEN Append(expandedResults, scored(allDocuments[d], 0, storyState))
           ELSE expandedResults)

\* expandRelatedContext(results, allDocuments, storyState)
expandRelatedContext(results, allDocuments, storyState) ==
  expandFrom(results, 1, allDocuments, 1, storyState, results)

\* searchStoryContextEnhanced throws: documents.map scores a first document and
\* calculateBaseScore builds a RegExp of every query word
searchThrows(query, documents) ==
  /\ Len(documents) > 0
  /\ LET queryWords == extractKeywords(toLowerCase(Chars(query)))
     IN  \E i \in 1..Len(queryWords) : regExpThrows(queryWords[i])

\* searchStoryContextEnhanced on the state it read
searchResults(storyState, query, documents, maxResults) ==
  expandRelatedContext(
    slice(sortByTotal(positiveOnly(scoredResults(documents, query, storyState))), maxResults),
    documents, storyState)
----------------------------------------------------------------------------
(* Pacing tracker: StoryStateTracker *)

Uppers ==
  { "A", "B", "C", "D", "E", "F", "G", "H", "I", "J", "K", "L", "M",
    "N", "O", "P", "Q", "R", "S", "T", "U", "V", "W", "X", "Y", "Z" }

\* The state built by the constructor of StoryStateTracker
NewTrackerState ==
  [ currentScene |-> "introduction",
    tension |-> "low",
    momentum |-> "slow",
    lastActions |-> <<>>,
    lastNarratives |-> <<>>,
    sceneCounter |-> 0,
    lastSignificantEvent |-> Null,
    playerStatus |-> [ alive |-> TRUE, deathCount |-> 0, lastDeathReason |-> Null,
                       hasExperiencedDeath |-> FALSE ],
    playerChoiceHistory |-> <<>>,
    storyBeats |-> [ introducedCharacters |-> <<>>, visitedLocations |-> <<>>,
                     plotPointsRevealed |-> <<>>, conflictsIntroduced |-> <<>>,
                     conflictsResolved |-> <<>>, deathEvents |-> <<>> ] ]

\* A history that drops its newest entry when it is full
addToHistory_DropsNewest(array, item, maxLength) ==
  IF Len(array) + 1 > maxLength THEN array ELSE Append(array, item)

\* addToHistory(array, item, maxLength): push, then shift when longer than maxLength
addToHistory(array, item, maxLength) ==
  IF Len(array) + 1 > maxLength THEN Tail(Append(array, item)) ELSE Append(array, item)

\* The text cs has the literal lit at position i
litAt(cs, i, lit) == i + Len(lit) - 1 <= Len(cs) /\ SubSeq(cs, i, i + Len(lit) - 1) = lit

\* The end of the longest run of characters of set that starts at position i (i - 1 if none)
runEnd(cs, i, set) ==
  CHOOSE j \in (i - 1)..Len(cs) :
    /\ \A k \in i..j : cs[k] \in set
    /\ (j = Len(cs) \/ cs[j + 1] \notin set)

\* String.prototype.trim
RECURSIVE trim(_)
trim(cs) ==
  IF cs = <<>> THEN <<>>
  ELSE IF Head(cs) \in Whitespace THEN trim(Tail(cs))
  ELSE IF cs[Len(cs)] \in Whitespace THEN trim(SubSeq(cs, 1, Len(cs) - 1))
  ELSE cs

\* RegExp.exec returned null
NoMatch == [capture |-> <<>>, end |-> 0]

\* [A-Z] followed by one or more characters of rest, at position i: the end of
\* the capture, or 0 when there is none
captureEnd(cs, i, rest) ==
  IF i <= Len(cs) /\ cs[i] \in Uppers /\ runEnd(cs, i + 1, rest) >= i + 1
    THEN runEnd(cs, i + 1, rest) ELSE 0

\* /([A-Z][a-z]+)\s+(?:says|speaks|tells|whispers|shouts)/ tried at position i:
\* the capture and the end of the match, or NoMatch
nameThenVerbAt(cs, i) ==
  LET speechVerbs == <<"says", "speaks", "tells", "whispers", "shouts">>
      verb(e, w, verbs) ==
        IF verbs # {}
          THEN [ capture |-> SubSeq(cs, i, e),
                 end |-> w + Len(Chars(speechVerbs[CHOOSE k \in verbs :
                                                     \A k2 \in verbs : k <= k2])) ]
          ELSE NoMatch
      space(e, w) ==
        IF w > e
          THEN verb(e, w, {k \in 1..Len(speechVerbs) : litAt(cs, w + 1, Chars(speechVerbs[k]))})
          ELSE NoMatch
      name(e) == IF e > 0 THEN space(e, runEnd(cs, e + 1, Whitespace)) ELSE NoMatch
  IN  name(captureEnd(cs, i, Letters))

\* A literal of lits (tried in order), \s+, an optional "the" and \s+ when
\* withThe, then [A-Z] and one or more characters of rest, tried at position i
prefixThenNameAt(cs, i, lits, withThe, rest) ==
  LET name(start, e) ==
        IF e > 0 THEN [capture |-> SubSeq(cs, start, e), end |-> e] ELSE NoMatch
      nameFrom(start) == name(start, captureEnd(cs, start, rest))
      article(w, w2) ==
        nameFrom(IF withThe /\ w2 >= w + 4 /\ captureEnd(cs, w2 + 1, rest) > 0
                   THEN w2 + 1 ELSE w + 1)
      space(afterLit, w) ==
        IF w >= afterLit
          THEN article(w, IF litAt(cs, w + 1, Chars("the"))
                            THEN runEnd(cs, w + 4, Whitespace) ELSE 0)
          ELSE NoMatch
      prefix(afterLit) == space(afterLit, runEnd(cs, afterLit, Whitespace))
      literal(found) ==
        IF found # {}
          THEN prefix(i + Len(Chars(lits[CHOOSE k \in found : \A k2 \in found : k <= k2])))
          ELSE NoMatch
  IN  literal({k \in 1..Len(lits) : litAt(cs, i, Chars(lits[k]))})

\* One of the four patterns of analyzeStoryBeats tried at position i
patternAt(pattern, cs, i) ==
  CASE pattern = "name says" -> nameThenVerbAt(cs, i)
    [] pattern = "meet name" -> prefixThenNameAt(cs, i, <<"meet", "encounter", "see">>, FALSE, Letters)
    [] pattern = "enter place" ->
         prefixThenNameAt(cs, i, <<"enter", "arrive at", "reach", "find yourself in">>,
                          TRUE, Letters \cup Whitespace)
    [] pattern = "you are in place" ->
         prefixThenNameAt(cs, i, <<"You are in", "You find yourself in", "You stand in">>,
                          TRUE, Letters \cup Whitespace)

\* while ((match = pattern.exec(narrative)) !== null): the captures of the
\* matches found from the start on, each search resuming after the last match
captures(pattern, cs) ==
  LET scan(at) ==
        LET from[i \in 1..(Len(cs) + 1)] ==
              IF i > Len(cs) THEN <<>>
              ELSE IF at[i] # NoMatch THEN <<at[i].capture>> \o from[at[i].end + 1]
              ELSE from[i + 1]
        IN  from[1]
  IN  scan([i \in 1..Len(cs) |-> patternAt(pattern, cs, i)])

\* push of every item that the list does not include yet
RECURSIVE pushNew(_, _)
pushNew(list, items) ==
  IF items = <<>> THEN list
  ELSE pushNew(IF Contains(list, Head(items)) THEN list ELSE Append(list, Head(items)),
               Tail(items))

\* words.filter(word => lowerNarrative.includes(word)).length, and some(...) as > 0
countIncluded(lowerNarrative, words) ==
  Cardinality({w \in words : includes(lowerNarrative, Chars(w))})

\* categorizeAction(action)
categorizeAction(action) ==
  LET lower == toLowerCase(Chars(action))
  IN  IF includes(lower, Chars("look")) \/ includes(lower, Chars("examine")) THEN "examine"
      ELSE IF includes(lower, Chars("move")) \/ includes(lower, Chars("go")) THEN "move"
      ELSE IF includes(lower, Chars("talk")) \/ includes(lower, Chars("speak")) THEN "talk"
      ELSE IF includes(lower, Chars("take")) \/ includes(lower, Chars("use")) THEN "interact"
      ELSE "other"

\* The narratives and player actions passed to updateFromNarrative
Narratives ==
  { "You walk on",
    "Danger! An attack",
    "A strange calm before the attack",
    "A calm but strange place",
    "The forest is quiet",
    "You discover a clue",
    "You enter the Shadow Vale and meet Whiskers" }
TrackedActions ==
  {"look at the tree", "examine the rock", "look under the log", "go north", "wait"}

\* What the narrative analysis reads from a narrative (its characters cs), and
\* the bucket of an action: pure functions of strings, their values over the
\* inputs computed once
narrativeFacts(cs) ==
  LET trimmed(entered) == [k \in 1..Len(entered) |-> trim(entered[k])]
      facts(lower) ==
        [ characters |-> captures("name says", cs) \o captures("meet name", cs),
          locations |->
            trimmed(captures("enter place", cs) \o captures("you are in place", cs)),
          plot |->
            countIncluded(lower,
              { "reveal", "discover", "uncover", "learn", "realize", "understand",
                "secret", "mystery", "clue", "evidence", "truth" }) > 0,
          conflict |->
            countIncluded(lower,
              { "attack", "fight", "battle", "combat", "enemy", "threat",
                "danger", "trap", "ambush", "pursue", "chase" }) > 0,
          highCount |->
            countIncluded(lower,
              { "attack", "danger", "threat", "enemy", "fear", "panic", "urgent",
                "quickly", "suddenly" }),
          mediumCount |->
            countIncluded(lower,
              { "suspicious", "mysterious", "strange", "unsettling", "concerning",
                "worried" }),
          lowCount |->
            countIncluded(lower,
              {"peaceful", "calm", "safe", "rest", "comfortable", "relaxed"}),
          significant |->
            countIncluded(lower,
              { "major discovery", "plot twist", "character death", "new location",
                "important revelation", "conflict resolution", "new threat" }) > 0 ]
  IN  facts(toLowerCase(cs))

narrativeTable ==
  [n \in Narratives |-> narrativeFacts(Chars(n))]

categoryTable == [a \in TrackedActions |-> categorizeAction(a)]

\* analyzeStoryBeats(narrative): the storyBeats after it
analyzeStoryBeats(state, narrative) ==
  LET plotPoint == [scene |-> state.sceneCounter, text |-> "Discovery or revelation"]
      conflict == [scene |-> state.sceneCounter, text |-> "Combat or conflict"]
      after(found) ==
        [ state.storyBeats EXCEPT
            !.introducedCharacters = pushNew(@, found.characters),
            !.visitedLocations = pushNew(@, found.locations),
            !.plotPointsRevealed =
               IF found.plot /\ ~Contains(@, plotPoint) THEN Append(@, plotPoint) ELSE @,
            !.conflictsIntroduced =
               IF found.conflict /\ ~Contains(@, conflict) THEN Append(@, conflict) ELSE @ ]
  IN  after(narrativeTable[narrative])

\* A tension that falls back to low when no keyword matches
updateTension_ResetsToLow(tension, narrative) ==
  LET after(found) ==
        IF found.highCount > 0 THEN "high"
        ELSE IF found.mediumCount > 0 THEN "medium"
        ELSE "low"
  IN  after(narrativeTable[narrative])

\* updateTension(narrative): the tension after it
updateTension(tension, narrative) ==
  LET after(found) ==
        IF found.highCount > 0 THEN "high"
        ELSE IF found.mediumCount > 0 THEN "medium"
        ELSE IF found.lowCount > 0 THEN "low"
        ELSE tension
  IN  after(narrativeTable[narrative])

\* hasRepetitiveActions(): the last 3 actions fall in one bucket
hasRepetitiveActions(lastActions) ==
  IF Len(lastActions) < 3 THEN FALSE
  ELSE LET recent == SubSeq(lastActions, Len(lastActions) - 2, Len(lastActions))
       IN  \A i \in 1..3 : categoryTable[recent[i]] = categoryTable[recent[1]]

\* A momentum that tests the plot progression before the repetition
updateMomentum_ProgressFirst(state) ==
  IF Len(state.storyBeats.plotPointsRevealed) > 0
       \/ Len(state.storyBeats.conflictsIntroduced) > 0 THEN "fast"
  ELSE IF hasRepetitiveActions(state.lastActions) THEN "stalled"
  ELSE IF state.sceneCounter > 2 THEN "slow"
  ELSE "steady"

\* updateMomentum(): the momentum after it
updateMomentum(state) ==
  IF hasRepetitiveActions(state.lastActions) THEN "stalled"
  ELSE IF Len(state.storyBeats.plotPointsRevealed) > 0
            \/ Len(state.storyBeats.conflictsIntroduced) > 0 THEN "fast"
  ELSE IF state.sceneCounter > 2 THEN "slow"
  ELSE "steady"

\* trackSignificantEvents(narrative): lastSignificantEvent after it
trackSignificantEvents(lastSignificantEvent, narrative) ==
  IF narrativeTable[narrative].significant THEN narrative ELSE lastSignificantEvent

\* updateFromNarrative(narrative, userAction): the tracker state after it
updateFromNarrative(state, narrative, userAction) ==
  LET s1 == [ state EXCEPT
                !.sceneCounter = @ + 1,
                !.lastNarratives = addToHistory(@, narrative, 5),
                !.lastActions = addToHistory(@, userAction, 5) ]
      s2 == [s1 EXCEPT !.storyBeats = analyzeStoryBeats(s1, narrative)]
      s3 == [s2 EXCEPT !.tension = updateTension(@, narrative)]
      s4 == [s3 EXCEPT !.momentum = updateMomentum(s3)]
  IN  [s4 EXCEPT !.lastSignificantEvent = trackSignificantEvents(@, narrative)]

\* A death that is counted and not logged in deathEvents
recordPlayerDeath_NotLogged(state, deathType, deathReason) ==
  [ state EXCEPT
      !.playerStatus = [ alive |-> FALSE,
                         deathCount |-> @.deathCount + 1,
                         lastDeathReason |-> deathReason,
                         hasExperiencedDeath |-> TRUE ],
      !.tension = "critical" ]

\* recordPlayerDeath(deathType, deathReason): the tracker state after it
recordPlayerDeath(state, deathType, deathReason) ==
  [ state EXCEPT
      !.playerStatus = [ alive |-> FALSE,
                         deathCount |-> @.deathCount + 1,
                         lastDeathReason |-> deathReason,
                         hasExperiencedDeath |-> TRUE ],
      !.storyBeats = [@ EXCEPT !.deathEvents = Append(@, <<deathType, deathReason>>)],
      !.tension = "critical" ]

\* A resurrection that leaves tension and momentum as they were
recordPlayerResurrection_KeepsPacing(state) ==
  [ state EXCEPT
      !.playerStatus = [@ EXCEPT !.alive = TRUE],
      !.currentScene = "post_resurrection" ]

\* A resurrection that starts the scene count again
recordPlayerResurrection_RestartsScenes(state) ==
  [ state EXCEPT
      !.playerStatus = [@ EXCEPT !.alive = TRUE],
      !.currentScene = "post_resurrection",
      !.tension = "medium",
      !.momentum = "steady",
      !.sceneCounter = 0 ]

\* recordPlayerResurrection(): the tracker state after it
recordPlayerResurrection(state) ==
  [ state EXCEPT
      !.playerStatus = [@ EXCEPT !.alive = TRUE],
      !.currentScene = "post_resurrection",
      !.tension = "medium",
      !.momentum = "steady" ]

\* A restart that forgets that the player has died
resetForRestart_ForgetsDeath(state) ==
  [ NewTrackerState EXCEPT
      !.playerStatus = [ alive |-> TRUE,
                         deathCount |-> state.playerStatus.deathCount,
                         lastDeathReason |-> Null,
                         hasExperiencedDeath |-> FALSE ],
      !.storyBeats = [@ EXCEPT !.deathEvents = state.storyBeats.deathEvents] ]

\* A restart that keeps the recorded actions
resetForRestart_KeepsActions(state) ==
  [ NewTrackerState EXCEPT
      !.lastActions = state.lastActions,
      !.playerStatus = [ alive |-> TRUE,
                         deathCount |-> state.playerStatus.deathCount,
                         lastDeathReason |-> Null,
                         hasExperiencedDeath |-> state.playerStatus.hasExperiencedDeath ],
      !.storyBeats = [@ EXCEPT !.deathEvents = state.storyBeats.deathEvents] ]

\* resetForRestart(): the tracker state after it
resetForRestart(state) ==
  [ NewTrackerState EXCEPT
      !.playerStatus = [ alive |-> TRUE,
                         deathCount |-> state.playerStatus.deathCount,
                         lastDeathReason |-> Null,
                         hasExperiencedDeath |-> state.playerStatus.hasExperiencedDeath ],
      !.storyBeats = [@ EXCEPT !.deathEvents = state.storyBeats.deathEvents] ]

----------------------------------------------------------------------------
(* analyzeAndTriggerBeats in steps: a call runs from one await to the next *)

TurnIds == {1, 2}

\* No call in flight under this id
IdleCall == [pc |-> "idle"]

----------------------------------------------------------------------------
(* The calls made on the services, one action per call *)

\* Inputs of the calls
ChoiceBeatIds == {"B1", "elder_oak_wisdom"}
MaxAges == 0..MaxTime

\* Partial<StoryState> values passed to updateStoryState by callers
UpdateInputs ==
  { [currentLocation |-> "shadow_vale"],
    [revealedLore |-> <<"crystal_legend">>, weather |-> "rain"],
    [metadata |-> [lastUpdated |-> 0, totalPlayTime |-> 5, majorDecisions |-> 3]] }

ChoicesMade(p) ==
  IF KeyOf(p) \in DOMAIN storyStates THEN Len(storyStates[KeyOf(p)].playerChoices) ELSE 0

Init ==
  /\ storyStates = EmptyMap
  /\ now = 0
  /\ last = [op |-> "init"]
  /\ calls = [t \in TurnIds |-> IdleCall]
  /\ tracker = NewTrackerState

Tick ==
  /\ now < MaxTime
  /\ now' = now + 1
  /\ last' = [op |-> "tick"]
  /\ UNCHANGED <<storyStates, calls, tracker>>

GetOrCreateStoryState(p, initialLocation) ==
  /\ storyStates' = StoreAfterGetOrCreate(storyStates, p[1], p[2], initialLocation, now)
  /\ last' = [ op |-> "getOrCreateStoryState", pair |-> p, initialLocation |-> initialLocation,
               known |-> (KeyOf(p) \in DOMAIN storyStates),
               ret |-> storyStates'[KeyOf(p)] ]
  /\ UNCHANGED <<now, calls, tracker>>

UpdateStoryState(p, updates) ==
  /\ storyStates' = StoreAfterUpdate(storyStates, p[1], p[2], updates, now)
  /\ last' = [ op |-> "updateStoryState", pair |-> p, updates |-> updates,
               known |-> (KeyOf(p) \in DOMAIN storyStates),
               ret |-> storyStates'[KeyOf(p)] ]
  /\ UNCHANGED <<now, calls, tracker>>

RecordPlayerChoice(p, beatId) ==
  /\ ChoicesMade(p) < MaxChoices
  /\ storyStates' =
       StoreAfterRecordChoice(storyStates, p[1], p[2], beatId, "chosen", "noted", now)
  /\ last' = [ op |-> "recordPlayerChoice", pair |-> p, beatId |-> beatId,
               known |-> (KeyOf(p) \in DOMAIN storyStates) ]
  /\ UNCHANGED <<now, calls, tracker>>

AnalyzeAndTriggerBeats(p, playerAction, actionType) ==
  LET s1 == StoreAfterGetOrCreate(storyStates, p[1], p[2], DefaultLocation, now)
      result == triggerResult(p[1], s1[KeyOf(p)], playerAction, actionType)
  IN  /\ storyStates' = StoreAfterAnalyze(storyStates, p[1], p[2], playerAction, actionType, now)
      /\ last' = [ op |-> "analyzeAndTriggerBeats", pair |-> p,
                   playerAction |-> playerAction, actionType |-> actionType,
                   known |-> (KeyOf(p) \in DOMAIN storyStates),
                   triggeredBeats |-> result.triggeredBeats,
                   contextModifications |-> result.contextModifications ]
      /\ UNCHANGED <<now, calls, tracker>>

SearchStoryContextEnhanced(p, query, documents, maxResults) ==
  /\ storyStates' = StoreAfterGetOrCreate(storyStates, p[1], p[2], DefaultLocation, now)
  /\ LET threw == searchThrows(query, documents)
     IN  last' = [ op |-> "searchStoryContextEnhanced", pair |-> p, query |-> query,
                   documents |-> documents, maxResults |-> maxResults,
                   known |-> (KeyOf(p) \in DOMAIN storyStates),
                   threw |-> threw,
                   ret |-> IF threw THEN <<>>
                           ELSE searchResults(storyStates'[KeyOf(p)], query, documents, maxResults) ]
  /\ UNCHANGED <<now, calls, tracker>>

Cleanup(maxAge) ==
  /\ storyStates' = StoreAfterCleanup(storyStates, maxAge, now)
  /\ last' = [ op |-> "cleanup", maxAge |-> maxAge,
               deleted |-> Cardinality(keysToDelete(storyStates, maxAge, now)) ]
  /\ UNCHANGED <<now, calls, tracker>>

\* The session under play makes every call; the other sessions are opened and moved
PlayPair == <<"ww", "s-1">>

UpdateCalls ==
  ({PlayPair} \X UpdateInputs) \cup ((Pairs \ {PlayPair}) \X {[currentLocation |-> "shadow_vale"]})

\* The store under the calls of its interface
Next ==
  \/ Tick
  \/ \E p \in Pairs, loc \in Locations : GetOrCreateStoryState(p, loc)
  \/ \E c \in UpdateCalls : UpdateStoryState(c[1], c[2])
  \/ \E b \in ChoiceBeatIds : RecordPlayerChoice(PlayPair, b)
  \/ AnalyzeAndTriggerBeats(PlayPair, "I examine door", Null)
  \/ \E maxAge \in MaxAges : Cleanup(maxAge)

Spec == Init /\ [][Next]_vars

\* Turns on one session: its state is touched by getOrCreateStoryState,
\* analyzeAndTriggerBeats and recordPlayerChoice alone, one call at a time
NextTurns ==
  \/ \E loc \in Locations : GetOrCreateStoryState(PlayPair, loc)
  \/ \E b \in ChoiceBeatIds : RecordPlayerChoice(PlayPair, b)
  \/ \E a \in PlayerActions, ty \in ActionTypes : AnalyzeAndTriggerBeats(PlayPair, a, ty)

SpecTurns == Init /\ [][NextTurns]_vars


\* Retrieval on the session under play, between turns that change its state
RelationInputs ==
  { [relationshipStates |->
       [c \in {"whiskers"} |->
          [ characterId |-> c, relationshipLevel |-> "friendly",
            lastInteraction |-> 0, keyEvents |-> <<>> ]]],
    [revealedLore |-> <<"crystal_legend">>] }

NextRag ==
  \/ \E q \in Queries, docs \in Corpora, n \in MaxResultsInputs :
       SearchStoryContextEnhanced(PlayPair, q, docs, n)
  \/ \E a \in {"choose path", "I examine door", "search"} :
       AnalyzeAndTriggerBeats(PlayPair, a, Null)
  \/ \E u \in RelationInputs : UpdateStoryState(PlayPair, u)

SpecRag == Init /\ [][NextRag]_vars


\* Retrieval for the scenario corpus and the story corpus, with well-formed and odd
\* strings, on a session opened at either location and played through its beats
NextQuery ==
  \/ \E loc \in Locations : GetOrCreateStoryState(PlayPair, loc)
  \/ \E q \in Queries \cup OddActions, docs \in {ScenarioCorpus, StoryCorpus}, n \in {1, 8} :
       SearchStoryContextEnhanced(PlayPair, q, docs, n)
  \/ \E a \in {"I examine door", "search"} \cup OddActions :
       AnalyzeAndTriggerBeats(PlayPair, a, Null)
  \/ \E u \in RelationInputs : UpdateStoryState(PlayPair, u)

SpecQuery == Init /\ [][NextQuery]_vars

----------------------------------------------------------------------------
(* analyzeAndTriggerBeats, step by step.  A call yields at its awaits: after  *)
(* getOrCreateStoryState has handed it the state object (loadStoryBeats is    *)
(* awaited next), and inside updateStoryState between reading currentState    *)
(* and Map.set.  Other calls and the sweep run at these points.               *)

\* A call that commits whether or not a beat triggered
turnCommits_Always(result) == TRUE

\* if (triggeredBeats.length > 0): the call commits its modifications
turnCommits(result) == Len(result.triggeredBeats) > 0

\* storyState = await getOrCreateStoryState(storyId, sessionId); the call then
\* awaits loadStoryBeats holding the state object it was given
TurnRead(t, p, playerAction, actionType) ==
  /\ calls[t].pc = "idle"
  /\ storyStates' = StoreAfterGetOrCreate(storyStates, p[1], p[2], DefaultLocation, now)
  /\ calls' = [calls EXCEPT ![t] =
       [ pc |-> "loading", pair |-> p, playerAction |-> playerAction,
         actionType |-> actionType, known |-> (KeyOf(p) \in DOMAIN storyStates),
         storyState |-> storyStates'[KeyOf(p)], writes |-> 0 ]]
  /\ UNCHANGED <<now, last, tracker>>

\* The beats are evaluated against the state object read; when a beat triggered
\* updateStoryState is entered, reads currentState (creating it when the store
\* has no entry) and awaits
TurnEvaluate(t) ==
  /\ calls[t].pc = "loading"
  /\ LET c == calls[t]
         p == c.pair
         result == triggerResult(p[1], c.storyState, c.playerAction, c.actionType)
         s1 == StoreAfterGetOrCreate(storyStates, p[1], p[2], DefaultLocation, now)
     IN  IF turnCommits(result)
           THEN /\ storyStates' = s1
                /\ calls' = [calls EXCEPT ![t] =
                     [ pc |-> "writing", pair |-> p, playerAction |-> c.playerAction,
                       actionType |-> c.actionType, known |-> c.known,
                       storyState |-> c.storyState, writes |-> c.writes,
                       result |-> result, updates |-> turnUpdates(result),
                       currentState |-> s1[KeyOf(p)] ]]
           ELSE /\ storyStates' = storyStates
                /\ calls' = [calls EXCEPT ![t] =
                     [ pc |-> "done", pair |-> p, playerAction |-> c.playerAction,
                       actionType |-> c.actionType, known |-> c.known,
                       storyState |-> c.storyState, writes |-> c.writes,
                       result |-> result ]]
  /\ UNCHANGED <<now, last, tracker>>

\* this.storyStates.set(stateKey, updatedState) of updateStoryState
TurnWrite(t) ==
  /\ calls[t].pc = "writing"
  /\ LET c == calls[t]
     IN  /\ storyStates' =
              Put(storyStates, KeyOf(c.pair), MergeState(c.currentState, c.updates, now))
         /\ calls' = [calls EXCEPT ![t] =
              [ pc |-> "done", pair |-> c.pair, playerAction |-> c.playerAction,
                actionType |-> c.actionType, known |-> c.known,
                storyState |-> c.storyState, writes |-> c.writes + 1,
                result |-> c.result ]]
  /\ UNCHANGED <<now, last, tracker>>

\* return { triggeredBeats, contextModifications, ... }
TurnReturn(t) ==
  /\ calls[t].pc = "done"
  /\ last' = [ op |-> "analyzeAndTriggerBeats", pair |-> calls[t].pair,
               playerAction |-> calls[t].playerAction, actionType |-> calls[t].actionType,
               known |-> calls[t].known,
               triggeredBeats |-> calls[t].result.triggeredBeats,
               contextModifications |-> calls[t].result.contextModifications,
               writes |-> calls[t].writes ]
  /\ calls' = [calls EXCEPT ![t] = IdleCall]
  /\ UNCHANGED <<storyStates, now, tracker>>

\* Two calls on one session, started without waiting for each other
NextRace ==
  \/ \E t \in TurnIds, a \in {"", "I examine door", "choose path"} : TurnRead(t, PlayPair, a, Null)
  \/ \E t \in TurnIds : TurnEvaluate(t)
  \/ \E t \in TurnIds : TurnWrite(t)
  \/ \E t \in TurnIds : TurnReturn(t)

SpecRace == Init /\ [][NextRace]_vars

\* One call at a time on a session that the host's timer sweeps.  The sweep is
\* a timer callback: it runs while the call awaits loadStoryBeats, not between
\* the steps of updateStoryState, which resume without leaving the job queue
NoCallInFlight == \A t \in TurnIds : calls[t].pc = "idle"
SweepCanRun == \A t \in TurnIds : calls[t].pc \in {"idle", "loading"}

NextSweep ==
  \/ (NoCallInFlight /\ UpdateStoryState(PlayPair, [currentLocation |-> "shadow_vale"]))
  \/ (NoCallInFlight /\ RecordPlayerChoice(PlayPair, "elder_oak_wisdom"))
  \/ Tick
  \/ (SweepCanRun /\ \E maxAge \in MaxAges : Cleanup(maxAge))
  \/ (NoCallInFlight /\ \E a \in {"I examine door", "search"} : TurnRead(1, PlayPair, a, Null))
  \/ TurnEvaluate(1)
  \/ TurnWrite(1)
  \/ TurnReturn(1)

SpecSweep == Init /\ [][NextSweep]_vars

----------------------------------------------------------------------------
(* One turn: EnhancedStoryPromptService.generateEnhancedPrompt *)

\* loadStoryContent(storyId): the documents built from the story's data files
loadStoryContent(storyId) == IF storyId = "ww" THEN StoryCorpus ELSE <<>>

\* beat.name of the beats of story "ww"
beatName(id) ==
  CASE id = "opening_choice" -> "The Crossroads"
    [] id = "B1" -> "The Oak Door"
    [] id = "whiskers_first_meeting" -> "Meeting Whiskers"
    [] id = "shadow_gate" -> "The Shadow Gate"
    [] id = "elder_oak_wisdom" -> "Wisdom of the Elder Oak"

\* generateEnhancedPrompt(storyId, sessionId, userQuery, conversationHistory, actionType):
\* analyzeAndTriggerBeats runs first and commits, searchStoryContext(.., userQuery, 8)
\* then reads the state from the store, getOrCreateStoryState reads it once more
GenerateEnhancedPrompt(p, userQuery, actionType) ==
  LET s1 == StoreAfterGetOrCreate(storyStates, p[1], p[2], DefaultLocation, now)
      result == triggerResult(p[1], s1[KeyOf(p)], userQuery, actionType)
      s2 == StoreAfterAnalyze(storyStates, p[1], p[2], userQuery, actionType, now)
      s3 == StoreAfterGetOrCreate(s2, p[1], p[2], DefaultLocation, now)
      storyContext == searchResults(s3[KeyOf(p)], userQuery, loadStoryContent(p[1]), 8)
      s4 == StoreAfterGetOrCreate(s3, p[1], p[2], DefaultLocation, now)
      storyState == s4[KeyOf(p)]
  IN  /\ storyStates' = s4
      /\ last' = [ op |-> "generateEnhancedPrompt", pair |-> p,
                   userQuery |-> userQuery, actionType |-> actionType,
                   known |-> (KeyOf(p) \in DOMAIN storyStates),
                   contextUsed |-> storyContext,
                   triggeredBeats |->
                     [ i \in 1..Len(result.triggeredBeats) |-> beatName(result.triggeredBeats[i]) ],
                   storyState |->
                     [ location |-> storyState.currentLocation,
                       knownCharacters |-> storyState.discoveredCharacters,
                       completedBeats |-> Len(storyState.completedBeats),
                       totalChoices |-> Len(storyState.playerChoices) ] ]
      /\ UNCHANGED <<now, calls, tracker>>

\* Turns of the session under play, between calls that open it and record choices
NextPrompt ==
  \/ \E q \in PromptQueries, ty \in ActionTypes : GenerateEnhancedPrompt(PlayPair, q, ty)
  \/ \E loc \in Locations : GetOrCreateStoryState(PlayPair, loc)
  \/ \E b \in ChoiceBeatIds : RecordPlayerChoice(PlayPair, b)

SpecPrompt == Init /\ [][NextPrompt]_vars

----------------------------------------------------------------------------
(* The pacing tracker under the calls made on it *)

NextTracker ==
  \/ \E c \in (Narratives \X {"wait"}) \cup ({"You walk on"} \X TrackedActions)
                \cup {<<"Danger! An attack", "look at the tree">>} :
       /\ tracker.sceneCounter < MaxScenes
       /\ tracker' = updateFromNarrative(tracker, c[1], c[2])
       /\ last' = [op |-> "updateFromNarrative", narrative |-> c[1], userAction |-> c[2]]
       /\ UNCHANGED <<storyStates, now, calls>>
  \/ /\ tracker.playerStatus.deathCount < MaxDeaths
     /\ tracker' = recordPlayerDeath(tracker, "combat", "slain by the shadow")
     /\ last' = [op |-> "recordPlayerDeath"]
     /\ UNCHANGED <<storyStates, now, calls>>
  \* recordPlayerResurrection is called when needsResurrection() holds
  \/ /\ ~tracker.playerStatus.alive
     /\ tracker' = recordPlayerResurrection(tracker)
     /\ last' = [op |-> "recordPlayerResurrection"]
     /\ UNCHANGED <<storyStates, now, calls>>
  \/ /\ tracker' = resetForRestart(tracker)
     /\ last' = [op |-> "resetForRestart"]
     /\ UNCHANGED <<storyStates, now, calls>>

SpecTracker == Init /\ [][NextTracker]_vars

----------------------------------------------------------------------------
(* The pacing tracker over a longer story: interventions, death, restart *)

\* A needsIntervention that tests the missing plot before the repetition
needsIntervention_PlotFirst(state) ==
  IF state.momentum = "stalled"
    THEN [ needed |-> TRUE, reason |-> "Story momentum has stalled",
           intervention |-> "INJECT_COMPLICATION" ]
  ELSE IF state.sceneCounter > 3 /\ state.tension = "low"
    THEN [ needed |-> TRUE, reason |-> "Too many peaceful scenes",
           intervention |-> "INCREASE_TENSION" ]
  ELSE IF state.sceneCounter > 5 /\ Len(state.storyBeats.plotPointsRevealed) = 0
    THEN [ needed |-> TRUE, reason |-> "No plot progression detected",
           intervention |-> "REVEAL_PLOT" ]
  ELSE IF hasRepetitiveActions(state.lastActions)
    THEN [ needed |-> TRUE, reason |-> "Player actions are repetitive",
           intervention |-> "FORCE_CHANGE" ]
  ELSE [needed |-> FALSE, reason |-> "", intervention |-> ""]

\* needsIntervention(): the first rule that matches
needsIntervention(state) ==
  IF state.momentum = "stalled"
    THEN [ needed |-> TRUE, reason |-> "Story momentum has stalled",
           intervention |-> "INJECT_COMPLICATION" ]
  ELSE IF state.sceneCounter > 3 /\ state.tension = "low"
    THEN [ needed |-> TRUE, reason |-> "Too many peaceful scenes",
           intervention |-> "INCREASE_TENSION" ]
  ELSE IF hasRepetitiveActions(state.lastActions)
    THEN [ needed |-> TRUE, reason |-> "Player actions are repetitive",
           intervention |-> "FORCE_CHANGE" ]
  ELSE IF state.sceneCounter > 5 /\ Len(state.storyBeats.plotPointsRevealed) = 0
    THEN [ needed |-> TRUE, reason |-> "No plot progression detected",
           intervention |-> "REVEAL_PLOT" ]
  ELSE [needed |-> FALSE, reason |-> "", intervention |-> ""]

\* recordChoice(choice, consequences): the tracker state after it, at time t
recordChoice(state, choice, consequences, t) ==
  LET pushed == Append(state.playerChoiceHistory,
                       [choice |-> choice, timestamp |-> t, consequences |-> consequences])
  IN  [state EXCEPT !.playerChoiceHistory = IF Len(pushed) > 10 THEN Tail(pushed) ELSE pushed]

\* checkForDeathTriggers(userAction): what it returns
checkForDeathTriggers(state, userAction) ==
  LET check(actionLower) ==
        IF countIncluded(actionLower,
             {"smash torch", "break torch", "destroy torch", "hit torch", "kick torch"}) > 0
          THEN [ isDeath |-> TRUE, deathType |-> "reckless_torch_handling",
                 deathReason |-> "Reckless torch manipulation caused a fatal fire" ]
        ELSE IF countIncluded(actionLower,
                  {"smash stone", "break wall", "destroy stones", "hit wall", "punch stones"}) > 0
          THEN [ isDeath |-> TRUE, deathType |-> "dangerous_stone_collapse",
                 deathReason |-> "Reckless stone manipulation caused a fatal collapse" ]
        ELSE IF countIncluded(actionLower,
                  {"panic", "desperate", "scream", "give up", "break down"}) > 0
          THEN [ isDeath |-> TRUE, deathType |-> "panic_induced_death",
                 deathReason |-> "Panic led to fatal poor decisions" ]
        ELSE IF state.sceneCounter > 15
          THEN [ isDeath |-> TRUE, deathType |-> "exhaustion_death",
                 deathReason |-> "Exhaustion and time pressure led to collapse" ]
        ELSE [isDeath |-> FALSE, deathType |-> Null, deathReason |-> Null]
  IN  check(toLowerCase(Chars(userAction)))

\* The calls made on one tracker through a story of up to MaxTurns scenes
NextPacing ==
  \/ \E c \in { <<"Danger! An attack", "look at the tree">>,
                <<"The forest is quiet", "go north">> } :
       /\ tracker.sceneCounter < MaxTurns
       /\ tracker' = updateFromNarrative(tracker, c[1], c[2])
       /\ last' = [op |-> "updateFromNarrative", narrative |-> c[1], userAction |-> c[2]]
       /\ UNCHANGED <<storyStates, now, calls>>
  \/ /\ last.op # "needsIntervention"
     /\ last' = [op |-> "needsIntervention", ret |-> needsIntervention(tracker)]
     /\ UNCHANGED <<storyStates, now, calls, tracker>>
  \/ \E userAction \in {"I smash torch in anger", "go north"} :
       /\ last.op # "checkForDeathTriggers"
       /\ last' = [ op |-> "checkForDeathTriggers", userAction |-> userAction,
                    ret |-> checkForDeathTriggers(tracker, userAction) ]
       /\ UNCHANGED <<storyStates, now, calls, tracker>>
  \/ /\ Len(tracker.playerChoiceHistory) < MaxChoices
     /\ tracker' = recordChoice(tracker, "go north", "You walk on", now)
     /\ last' = [op |-> "recordChoice"]
     /\ UNCHANGED <<storyStates, now, calls>>
  \/ /\ tracker.playerStatus.deathCount < MaxDeaths
     /\ tracker' = recordPlayerDeath(tracker, "reckless_torch_handling",
                                     "Reckless torch manipulation caused a fatal fire")
     /\ last' = [op |-> "recordPlayerDeath"]
     /\ UNCHANGED <<storyStates, now, calls>>
  \/ /\ ~tracker.playerStatus.alive
     /\ tracker' = recordPlayerResurrection(tracker)
     /\ last' = [op |-> "recordPlayerResurrection"]
     /\ UNCHANGED <<storyStates, now, calls>>
  \/ /\ tracker' = resetForRestart(tracker)
     /\ last' = [op |-> "resetForRestart", before |-> tracker]
     /\ UNCHANGED <<storyStates, now, calls>>

SpecPacing == Init /\ [][NextPacing]_vars

\* The calls made on one tracker through a story of up to MaxStory scenes, past
\* the exhaustion threshold of checkForDeathTriggers
NextExhaustion ==
  \/ /\ tracker.sceneCounter < MaxStory
     /\ tracker' = updateFromNarrative(tracker, "The forest is quiet", "go north")
     /\ last' = [ op |-> "updateFromNarrative", narrative |-> "The forest is quiet",
                  userAction |-> "go north" ]
     /\ UNCHANGED <<storyStates, now, calls>>
  \/ \E userAction \in {"I smash torch in anger", "go north"} :
       /\ last' = [ op |-> "checkForDeathTriggers", userAction |-> userAction,
                    ret |-> checkForDeathTriggers(tracker, userAction) ]
       /\ UNCHANGED <<storyStates, now, calls, tracker>>
  \/ /\ tracker.playerStatus.deathCount < MaxDeaths
     /\ tracker' = recordPlayerDeath(tracker, "exhaustion_death",
                                     "Exhaustion and time pressure led to collapse")
     /\ last' = [op |-> "recordPlayerDeath"]
     /\ UNCHANGED <<storyStates, now, calls>>
  \/ /\ tracker' = recordPlayerResurrection(tracker)
     /\ last' = [op |-> "recordPlayerResurrection"]
     /\ UNCHANGED <<storyStates, now, calls>>
  \/ /\ tracker' = resetForRestart(tracker)
     /\ last' = [op |-> "resetForRestart", before |-> tracker]
     /\ UNCHANGED <<storyStates, now, calls>>

SpecExhaustion == Init /\ [][NextExhaustion]_vars

----------------------------------------------------------------------------
(* The debug surface of the trigger service *)

\* A filter that leaves out every completed beat, the repeatable ones too
getAvailableBeats_DropsCompleted(storyId, storyState) ==
  LET available(beat) ==
        /\ ~Contains(storyState.completedBeats, beat.id)
        /\ \A i \in 1..Len(beat.prerequisites) :
             prereqSatisfied(storyState, beat.prerequisites[i])
      kept == SelectSeq(loadStoryBeats(storyId), available)
  IN  [i \in 1..Len(kept) |-> kept[i].id]

\* getAvailableBeats on the state it read: the ids of the beats the filter keeps
getAvailableBeats(storyId, storyState) ==
  LET available(beat) ==
        IF Contains(storyState.completedBeats, beat.id) /\ ~beat.repeatable THEN FALSE
        ELSE IF Len(beat.prerequisites) > 0
          THEN \A i \in 1..Len(beat.prerequisites) :
                 prereqSatisfied(storyState, beat.prerequisites[i])
        ELSE TRUE
      kept == SelectSeq(loadStoryBeats(storyId), available)
  IN  [i \in 1..Len(kept) |-> kept[i].id]

GetAvailableBeats(p) ==
  /\ storyStates' = StoreAfterGetOrCreate(storyStates, p[1], p[2], DefaultLocation, now)
  /\ last' = [ op |-> "getAvailableBeats", pair |-> p,
               known |-> (KeyOf(p) \in DOMAIN storyStates),
               ret |-> getAvailableBeats(p[1], storyStates'[KeyOf(p)]) ]
  /\ UNCHANGED <<now, calls, tracker>>

\* Turns on one session, with the available beats asked for between them
NextAvailable ==
  \/ \E loc \in Locations : GetOrCreateStoryState(PlayPair, loc)
  \/ \E b \in ChoiceBeatIds : RecordPlayerChoice(PlayPair, b)
  \/ \E a \in PlayerActions, ty \in ActionTypes : AnalyzeAndTriggerBeats(PlayPair, a, ty)
  \/ GetAvailableBeats(PlayPair)

SpecAvailable == Init /\ [][NextAvailable]_vars

\* Turns and recorded choices, one call at a time, on a session of story "ww"
\* and on a session of story "duo"
NextUnique ==
  \/ \E p \in {PlayPair, <<"duo", "s-1">>}, b \in ChoiceBeatIds : RecordPlayerChoice(p, b)
  \/ \E a \in {"I examine door", "seek wisdom", "search"} :
       AnalyzeAndTriggerBeats(PlayPair, a, Null)
  \/ \E a \in {"search", "seek wisdom"}, ty \in ActionTypes :
       AnalyzeAndTriggerBeats(<<"duo", "s-1">>, a, ty)

SpecUnique == Init /\ [][NextUnique]_vars
----------------------------------------------------------------------------
(* Helpers of the claims *)

\* The beat of story "ww" with this id is declared and not repeatable
NonRepeatableBeat(b) ==
  \E i \in 1..Len(StoryBeats) : StoryBeats[i].id = b /\ ~StoryBeats[i].repeatable

RepeatableBeat(b) ==
  \E i \in 1..Len(StoryBeats) : StoryBeats[i].id = b /\ StoryBeats[i].repeatable

Stored(p) == storyStates[KeyOf(p)]

----------------------------------------------------------------------------
(* C1 *)

\* C1: after any sequence of getOrCreateStoryState, analyzeAndTriggerBeats and
\* recordPlayerChoice calls on one session, no beat id is in completedBeats and in
\* activeBeats of the stored state at the same time, repeatable beats included.
C1_NoBeatCompletedAndActive ==
  \A k \in DOMAIN storyStates :
    \A i \in 1..Len(storyStates[k].completedBeats) :
      ~Contains(storyStates[k].activeBeats, storyStates[k].completedBeats[i])

----------------------------------------------------------------------------
(* C2 *)

\* C2: with turns processed one at a time, a non-repeatable beat whose id is in
\* completedBeats of a session stays there, and no analyzeAndTriggerBeats call on
\* that session, for any action and action type, has it in triggeredBeats.
C2_CompletedBeatNeverRetriggered ==
  [][ \A k \in DOMAIN storyStates :
        \A i \in 1..Len(storyStates[k].completedBeats) :
          LET b == storyStates[k].completedBeats[i]
          IN  NonRepeatableBeat(b) =>
                /\ k \in DOMAIN storyStates'
                /\ Contains(storyStates'[k].completedBeats, b)
                /\ (last'.op = "analyzeAndTriggerBeats" /\ KeyOf(last'.pair) = k)
                     => ~Contains(last'.triggeredBeats, b) ]_vars

\* A call whose action matches B1's trigger, made when B1 was already completed
C2_Witness ==
  /\ last.op = "analyzeAndTriggerBeats"
  /\ last.playerAction = "I examine door"
  /\ last.known
  /\ Contains(Stored(last.pair).completedBeats, "B1")
  /\ ~Contains(last.triggeredBeats, "B1")

----------------------------------------------------------------------------
(* C3 *)

\* C3 as stated: on a fresh session and with no actionType, the action
\* "I examine the door" returns B1 (triggers ["examine door"], no prerequisites, not
\* repeatable) in triggeredBeats and B1 is in completedBeats afterwards.
C3_ExamineTheDoorTriggersB1 ==
  ( /\ last.op = "analyzeAndTriggerBeats"
    /\ ~last.known
    /\ last.playerAction = "I examine the door"
    /\ last.actionType = Null )
  => /\ Contains(last.triggeredBeats, "B1")
     /\ Contains(Stored(last.pair).completedBeats, "B1")

\* C3 amended: on a fresh session and with no actionType, "I examine the door" does
\* not return B1 and leaves it out of completedBeats, because the action does not
\* contain the trigger "examine door"; "I examine door" returns B1 and B1 is in
\* completedBeats afterwards; a second call with that action does not return B1.
C3_ExamineDoorTriggersB1Once ==
  [][ (last'.op = "analyzeAndTriggerBeats" /\ last'.actionType = Null) =>
        LET k == KeyOf(last'.pair)
            fresh == k \notin DOMAIN storyStates
        IN  /\ (fresh /\ last'.playerAction = "I examine the door") =>
                 /\ ~Contains(last'.triggeredBeats, "B1")
                 /\ ~Contains(storyStates'[k].completedBeats, "B1")
            /\ (fresh /\ last'.playerAction = "I examine door") =>
                 /\ Contains(last'.triggeredBeats, "B1")
                 /\ Contains(storyStates'[k].completedBeats, "B1")
            /\ ( /\ last.op = "analyzeAndTriggerBeats"
                 /\ last.pair = last'.pair
                 /\ last.playerAction = "I examine door"
                 /\ Contains(last.triggeredBeats, "B1")
                 /\ last'.playerAction = "I examine door" ) =>
                 ~Contains(last'.triggeredBeats, "B1") ]_vars

\* The first call with "I examine door" on a fresh session has returned B1
C3_Witness ==
  /\ last.op = "analyzeAndTriggerBeats"
  /\ ~last.known
  /\ last.playerAction = "I examine door"
  /\ last.actionType = Null
  /\ last.triggeredBeats = <<"B1">>
  /\ Stored(last.pair).completedBeats = <<"B1">>

----------------------------------------------------------------------------
(* C6 *)

\* C6: updateStoryState(storyId, sessionId, partial) leaves every top-level field
\* that partial does not carry as it was; besides the fields of partial only
\* metadata.lastUpdated changes, and no other session is touched.
C6_UpdateKeepsUntouchedFields ==
  [][ (last'.op = "updateStoryState" /\ KeyOf(last'.pair) \in DOMAIN storyStates) =>
        LET k == KeyOf(last'.pair)
            partial == last'.updates
            before == storyStates[k]
            after == storyStates'[k]
        IN  /\ \A f \in (DOMAIN before) \ ((DOMAIN partial) \cup {"metadata"}) :
                 f \in DOMAIN after /\ after[f] = before[f]
            /\ "metadata" \notin DOMAIN partial =>
                 /\ after.metadata.totalPlayTime = before.metadata.totalPlayTime
                 /\ after.metadata.majorDecisions = before.metadata.majorDecisions
                 /\ DOMAIN after.metadata = DOMAIN before.metadata
            /\ DOMAIN storyStates' = DOMAIN storyStates
            /\ \A k2 \in (DOMAIN storyStates) \ {k} : storyStates'[k2] = storyStates[k2] ]_vars

\* An update of currentLocation alone on a session that has completed beats,
\* an active beat, a recorded choice, a story flag and a counted decision
C6_Witness ==
  /\ last.op = "updateStoryState"
  /\ last.known
  /\ last.updates = [currentLocation |-> "shadow_vale"]
  /\ Stored(last.pair).currentLocation = "shadow_vale"
  /\ Len(Stored(last.pair).completedBeats) > 0
  /\ Len(Stored(last.pair).activeBeats) > 0
  /\ Len(Stored(last.pair).playerChoices) > 0
  /\ Stored(last.pair).metadata.majorDecisions > 0

----------------------------------------------------------------------------
(* C7 *)

\* C7: after updateStoryState every top-level field that partial carries, the
\* metadata field included (totalPlayTime, majorDecisions), has partial's value in
\* the stored record, and metadata.lastUpdated is the time of the call.
C7_UpdateStoresEveryPartialField ==
  [][ last'.op = "updateStoryState" =>
        LET partial == last'.updates
            after == storyStates'[KeyOf(last'.pair)]
        IN  /\ \A f \in (DOMAIN partial) \ {"metadata"} : after[f] = partial[f]
            /\ "metadata" \in DOMAIN partial =>
                 /\ after.metadata.totalPlayTime = partial.metadata.totalPlayTime
                 /\ after.metadata.majorDecisions = partial.metadata.majorDecisions
            /\ after.metadata.lastUpdated = now' ]_vars

----------------------------------------------------------------------------
(* C8 *)

----------------------------------------------------------------------------
(* C9 *)

\* The state recordPlayerChoice works on: the stored one, or the default it creates
StateBeforeChoice(p) ==
  IF KeyOf(p) \in DOMAIN storyStates
    THEN storyStates[KeyOf(p)]
    ELSE [ completedBeats |-> <<>>, activeBeats |-> <<"opening_choice">>,
           playerChoices |-> <<>>, metadata |-> [majorDecisions |-> 0] ]

\* C9: recordPlayerChoice(beatId, ...) appends exactly one entry to playerChoices,
\* adds 1 to metadata.majorDecisions, and moves beatId from activeBeats to
\* completedBeats only if the beat is not repeatable; for a repeatable beat its
\* membership in activeBeats and completedBeats is unchanged.
C9_RecordChoiceMovesNonRepeatableOnly ==
  [][ last'.op = "recordPlayerChoice" =>
        LET before == StateBeforeChoice(last'.pair)
            after == storyStates'[KeyOf(last'.pair)]
            b == last'.beatId
        IN  /\ Len(after.playerChoices) = Len(before.playerChoices) + 1
            /\ SubSeq(after.playerChoices, 1, Len(before.playerChoices)) = before.playerChoices
            /\ after.playerChoices[Len(after.playerChoices)].beatId = b
            /\ after.metadata.majorDecisions = before.metadata.majorDecisions + 1
            /\ NonRepeatableBeat(b) =>
                 Contains(after.completedBeats, b) /\ ~Contains(after.activeBeats, b)
            /\ RepeatableBeat(b) =>
                 /\ Contains(after.completedBeats, b) = Contains(before.completedBeats, b)
                 /\ Contains(after.activeBeats, b) = Contains(before.activeBeats, b) ]_vars

----------------------------------------------------------------------------
(* C10 *)

\* C10: cleanup(maxAge) removes exactly the stored sessions whose
\* metadata.lastUpdated is more than maxAge before the time of the sweep; every
\* session of age <= maxAge stays in the store with its state unchanged.
C10_CleanupRemovesOlderOnly ==
  [][ last'.op = "cleanup" =>
        /\ DOMAIN storyStates' =
             {k \in DOMAIN storyStates : now - storyStates[k].metadata.lastUpdated <= last'.maxAge}
        /\ \A k \in DOMAIN storyStates' : storyStates'[k] = storyStates[k] ]_vars

\* A sweep that deleted one session and kept another whose age equals maxAge
C10_Witness ==
  /\ last.op = "cleanup"
  /\ last.deleted = 1
  /\ \E k \in DOMAIN storyStates : now - storyStates[k].metadata.lastUpdated = last.maxAge
----------------------------------------------------------------------------
(* C4 *)

\* C4: searchStoryContextEnhanced never returns more than 12 entries, for every
\* corpus size and every maxResults, maxResults above 12 with more than 12
\* documents scoring above zero included.
C4_SearchReturnsAtMostTwelve ==
  last.op = "searchStoryContextEnhanced" => Len(last.ret) <= 12

----------------------------------------------------------------------------
(* C5 *)

\* The place of the document with this id in the corpus
corpusIndex(documents, id) ==
  CHOOSE i \in 1..Len(documents) : documents[i].metadata.id = id

\* Equal-score entries i < j of a returned list stand in corpus order
InCorpusOrder(ret, documents, i, j) ==
  corpusIndex(documents, ret[i].metadata.id) < corpusIndex(documents, ret[j].metadata.id)

\* The number of entries of the last search that were scored against the query:
\* the documents scoring above zero, cut to maxResults
directCount ==
  Min(last.maxResults,
      Cardinality({ i \in 1..Len(last.documents) :
                      getTotalScore(scored(last.documents[i],
                                           baseScoreTable[last.documents[i], last.query],
                                           Stored(last.pair))) > 0 }))

\* C5 as stated: the list returned by searchStoryContextEnhanced is ordered by
\* totalScore non-increasing over its whole length, the entries appended by context
\* expansion included, with equal-score entries in corpus order.
C5_WholeListOrderedByTotalScore ==
  last.op = "searchStoryContextEnhanced" =>
    \A i \in 1..Len(last.ret), j \in 1..Len(last.ret) :
      i < j =>
        /\ getTotalScore(last.ret[i]) >= getTotalScore(last.ret[j])
        /\ getTotalScore(last.ret[i]) = getTotalScore(last.ret[j])
             => InCorpusOrder(last.ret, last.documents, i, j)

\* C5 amended: the entries scored against the query (the first min(maxResults,
\* number of documents scoring above zero)) are ordered by totalScore
\* non-increasing with equal-score entries in corpus order; the entries appended
\* by context expansion follow them with relevanceScore 0, none scoring more in
\* total than any entry before them, and they are not ordered among themselves.
C5_DirectEntriesOrderedByTotalScore ==
  last.op = "searchStoryContextEnhanced" =>
    /\ directCount <= Len(last.ret)
    /\ \A i \in 1..directCount, j \in 1..directCount :
         i < j =>
           /\ getTotalScore(last.ret[i]) >= getTotalScore(last.ret[j])
           /\ getTotalScore(last.ret[i]) = getTotalScore(last.ret[j])
                => InCorpusOrder(last.ret, last.documents, i, j)
    /\ \A j \in (directCount + 1)..Len(last.ret) :
         /\ last.ret[j].relevanceScore = 0
         /\ \A i \in 1..directCount :
              getTotalScore(last.ret[i]) >= getTotalScore(last.ret[j])

\* A search that returned equal-score entries scored against the query and
\* appended entries that are out of score order among themselves
C5_Witness ==
  /\ last.op = "searchStoryContextEnhanced"
  /\ \E i \in 1..directCount, j \in 1..directCount :
       i < j /\ getTotalScore(last.ret[i]) = getTotalScore(last.ret[j])
  /\ \E i \in (directCount + 1)..Len(last.ret), j \in (directCount + 1)..Len(last.ret) :
       i < j /\ getTotalScore(last.ret[i]) < getTotalScore(last.ret[j])
----------------------------------------------------------------------------
(* C11 *)

\* C11: a sweep that runs between a turn's state read and its write cannot
\* remove the entry mid-update: the state the turn commits carries the pre-turn
\* values of every field the turn did not touch (currentLocation, playerChoices,
\* relationshipStates, revealedLore, inventoryItems, the metadata counters).
C11_TurnCommitKeepsUntouchedFields ==
  [][ \A t \in TurnIds :
        (calls[t].pc = "writing" /\ calls'[t].pc = "done") =>
          LET before == calls[t].storyState
              after == storyStates'[KeyOf(calls[t].pair)]
          IN  /\ after.currentLocation = before.currentLocation
              /\ after.playerChoices = before.playerChoices
              /\ after.relationshipStates = before.relationshipStates
              /\ after.revealedLore = before.revealedLore
              /\ after.inventoryItems = before.inventoryItems
              /\ after.metadata.totalPlayTime = before.metadata.totalPlayTime
              /\ after.metadata.majorDecisions = before.metadata.majorDecisions ]_vars

----------------------------------------------------------------------------
(* C12 *)

\* C12: no intra-session concurrency control.  A call's write stores the
\* modifications it computed from the state it read, whatever other calls on the
\* session have written since (the last write wins); so a state is reachable in
\* which a beat triggered by the earlier call is missing from completedBeats,
\* and the same non-repeatable beat is in triggeredBeats of both calls.
C12_LaterWriteOverwritesEarlier ==
  [][ \A t \in TurnIds :
        (calls[t].pc = "writing" /\ calls'[t].pc = "done") =>
          LET mods == triggerResult(calls[t].pair[1], calls[t].storyState,
                                    calls[t].playerAction, calls[t].actionType).contextModifications
              after == storyStates'[KeyOf(calls[t].pair)]
          IN  /\ after.completedBeats = mods.completedBeats
              /\ after.activeBeats = mods.newActiveBeats
              /\ after.discoveredCharacters = mods.discoveredCharacters
              /\ after.knownLocations = mods.knownLocations
              /\ after.storyFlags = mods.storyFlags ]_vars

\* Two interleaved calls on one session have both written: both returned B1, and
\* a non-repeatable beat that one of them triggered is not in completedBeats
C12_Witness ==
  /\ calls[1].pc = "done" /\ calls[2].pc = "done"
  /\ calls[1].pair = calls[2].pair
  /\ calls[1].writes = 1 /\ calls[2].writes = 1
  /\ Contains(calls[1].result.triggeredBeats, "B1")
  /\ Contains(calls[2].result.triggeredBeats, "B1")
  /\ \E i \in 1..Len(calls[1].result.triggeredBeats) :
       /\ NonRepeatableBeat(calls[1].result.triggeredBeats[i])
       /\ ~Contains(Stored(calls[1].pair).completedBeats, calls[1].result.triggeredBeats[i])

----------------------------------------------------------------------------
(* C13 *)

----------------------------------------------------------------------------
(* Claims on the order of the steps of a turn *)

\* C14: the ScoredContext list generateEnhancedPrompt returns for a turn is the
\* one retrieval computes against the StoryState as it was before that turn's
\* trigger evaluation committed its mutations
C14_ContextScoredAgainstPreTurnState ==
  [][ last'.op = "generateEnhancedPrompt" =>
        LET p == last'.pair
            preTurnState ==
              StoreAfterGetOrCreate(storyStates, p[1], p[2], DefaultLocation, now)[KeyOf(p)]
        IN  last'.contextUsed =
              searchResults(preTurnState, last'.userQuery, loadStoryContent(p[1]), 8) ]_vars

----------------------------------------------------------------------------
(* Claims on retrieval: scenario, empty and odd queries, monotonicity *)

\* The last call was the scenario search: "whiskers" on the two-document corpus
\* against a fresh state, one that is as getOrCreateStoryState built it
ScenarioSearch ==
  /\ last.op = "searchStoryContextEnhanced"
  /\ last.documents = ScenarioCorpus
  /\ last.query = "whiskers"
  /\ LET s == Stored(last.pair)
     IN  \E loc \in Locations :
           s = NewState(s.storyId, s.sessionId, loc, s.metadata.lastUpdated)

\* The entries of a result list for a document id
EntriesOf(ret, id) == {i \in 1..Len(ret) : ret[i].metadata.id = id}

\* C15 (as stated): in the scenario the character is returned first with
\* relevanceScore >= 3, and the location is in the result only as an entry
\* appended by context expansion, with relevanceScore 0
C15_CharacterFirstLocationExpanded ==
  ScenarioSearch =>
    /\ Len(last.ret) >= 1
    /\ last.ret[1].metadata.id = "whiskers"
    /\ last.ret[1].relevanceScore >= 3
    /\ EntriesOf(last.ret, "whispering_woods") # {}
    /\ \A i \in EntriesOf(last.ret, "whispering_woods") : last.ret[i].relevanceScore = 0

\* C15 (amended): in the scenario the character scores relevanceScore 8 wherever
\* it is returned.  The location's content holds the query word, so it is scored
\* directly with relevanceScore 3 whenever it is among the first maxResults; it
\* ranks first exactly when it is the state's current location (23 more from the
\* relationship terms).  With maxResults = 1 the result is the location alone
\* when it is the current location, and otherwise the character followed by the
\* location appended by expansion with relevanceScore 0.
C15_ScenarioScores ==
  ScenarioSearch =>
    LET ret == last.ret
        here == Stored(last.pair).currentLocation = "whispering_woods"
    IN  /\ \A i \in EntriesOf(ret, "whiskers") : ret[i].relevanceScore = 8
        /\ last.maxResults >= 2 =>
             /\ Len(ret) = 2
             /\ \A i \in EntriesOf(ret, "whispering_woods") : ret[i].relevanceScore = 3
             /\ ret[1].metadata.id = (IF here THEN "whispering_woods" ELSE "whiskers")
             /\ ret[2].metadata.id = (IF here THEN "whiskers" ELSE "whispering_woods")
        /\ last.maxResults = 1 /\ here =>
             /\ Len(ret) = 1
             /\ ret[1].metadata.id = "whispering_woods"
             /\ ret[1].relevanceScore = 3
        /\ last.maxResults = 1 /\ ~here =>
             /\ Len(ret) = 2
             /\ ret[1].metadata.id = "whiskers"
             /\ ret[2].metadata.id = "whispering_woods"
             /\ ret[2].relevanceScore = 0

\* The scenario search with the default limit on a session opened at the default
\* location: the location is first, scored directly
C15_Witness ==
  /\ ScenarioSearch
  /\ last.maxResults = 8
  /\ Stored(last.pair).currentLocation = DefaultLocation
  /\ last.ret[1].metadata.id = "whispering_woods"
  /\ last.ret[1].relevanceScore = 3
  /\ last.ret[2].metadata.id = "whiskers"

\* C16: for an empty query every document has relevanceScore 0, and the search
\* returns an empty list unless some document has
\* relationshipScore + storyRelevanceScore > 0 against the current state
C16_EmptyQueryScoresFromStateOnly ==
  (last.op = "searchStoryContextEnhanced" /\ last.query = "") =>
    /\ extractKeywords(toLowerCase(Chars(last.query))) = <<>>
    /\ \A i \in 1..Len(last.documents) :
         scoredResults(last.documents, last.query, Stored(last.pair))[i].relevanceScore = 0
    /\ \A i \in 1..Len(last.ret) : last.ret[i].relevanceScore = 0
    /\ (last.ret = <<>>) <=>
         \A i \in 1..Len(last.documents) :
           calculateRelationshipScore(last.documents[i], Stored(last.pair))
             + calculateStoryRelevanceScore(last.documents[i], Stored(last.pair)) <= 0

\* An empty query that returned nothing: no document of a non-empty corpus
\* scores from the state
C16_Witness ==
  /\ last.op = "searchStoryContextEnhanced"
  /\ last.query = ""
  /\ last.documents # <<>>
  /\ last.ret = <<>>

\* C17: searchStoryContextEnhanced and analyzeAndTriggerBeats do not throw for any
\* query or action string, the empty string, punctuation and regular-expression
\* metacharacters included; for a punctuation-only query token extraction yields
\* no token and every entry has relevanceScore 0
C17_NoThrowOnAnyString ==
  /\ last.op = "searchStoryContextEnhanced" =>
       /\ ~last.threw
       /\ last.query \in {"?!", "(.*"} =>
            /\ extractKeywords(toLowerCase(Chars(last.query))) = <<>>
            /\ \A i \in 1..Len(last.ret) : last.ret[i].relevanceScore = 0
  /\ (last.op = "analyzeAndTriggerBeats" /\ last.playerAction \in OddActions) =>
       /\ last.triggeredBeats = <<>>
       /\ KeyOf(last.pair) \in DOMAIN storyStates

\* A search for a string of metacharacters that returned entries, all scored
\* from the state alone
C17_Witness ==
  /\ last.op = "searchStoryContextEnhanced"
  /\ last.query = "(.*"
  /\ ~last.threw
  /\ Len(last.ret) > 0
  /\ \A i \in 1..Len(last.ret) : last.ret[i].relevanceScore = 0

\* C18: for the query and documents of a search, adding a character id to
\* discoveredCharacters (all other state equal) does not decrease the
\* relationshipScore the search computes for that character's document
C18_DiscoveryNeverLowersRelationshipScore ==
  last.op = "searchStoryContextEnhanced" =>
    \A i \in 1..Len(last.documents) :
      last.documents[i].metadata.type = "character" =>
        scoredResults(last.documents, last.query,
                      [Stored(last.pair) EXCEPT !.discoveredCharacters =
                         Append(@, last.documents[i].metadata.id)])[i].relationshipScore
          >= scoredResults(last.documents, last.query, Stored(last.pair))[i].relationshipScore

\* A search after the turn that discovered whiskers: its entry carries the 10 of
\* a discovered character, which the state without the discovery does not give
C18_Witness ==
  /\ last.op = "searchStoryContextEnhanced"
  /\ Contains(Stored(last.pair).discoveredCharacters, "whiskers")
  /\ \E i \in EntriesOf(last.ret, "whiskers") :
       /\ last.ret[i].relationshipScore >= 10
       /\ calculateRelationshipScore(last.documents[1],
            [Stored(last.pair) EXCEPT !.discoveredCharacters = <<>>])
            = last.ret[i].relationshipScore - 10

----------------------------------------------------------------------------
(* Claims on the pacing tracker *)

\* C19: updateFromNarrative sets tension to the highest class of which the
\* narrative contains a keyword (high over medium over low), and leaves tension
\* as it was when the narrative contains no tension keyword: tension "high"
\* stays "high" through every such call
C19_TensionStickyHighestClass ==
  [][ last'.op = "updateFromNarrative" =>
        LET found == narrativeTable[last'.narrative]
            high == found.highCount > 0
            medium == found.mediumCount > 0
            low == found.lowCount > 0
        IN  /\ high => tracker'.tension = "high"
            /\ (~high /\ medium) => tracker'.tension = "medium"
            /\ (~high /\ ~medium /\ low) => tracker'.tension = "low"
            /\ (~high /\ ~medium /\ ~low) => tracker'.tension = tracker.tension ]_vars

\* Tension still "high" two narratives without a tension keyword after the
\* narrative with "danger" and "attack"
C19_Witness ==
  /\ last.op = "updateFromNarrative"
  /\ tracker.lastNarratives = <<"Danger! An attack", "You walk on", "You walk on">>
  /\ tracker.playerStatus.deathCount = 0
  /\ tracker.tension = "high"

\* C20: after each updateFromNarrative momentum is "stalled" if the last 3
\* recorded actions fall in one bucket, else "fast" if a plot point or a
\* conflict has been recorded since the tracker was created or reset, else
\* "slow" if sceneCounter > 2, else "steady"; the actions "look at the tree",
\* "examine the rock", "look under the log" end with momentum "stalled"
C20_MomentumCascade ==
  [][ last'.op = "updateFromNarrative" =>
        /\ tracker'.momentum =
             IF /\ Len(tracker'.lastActions) >= 3
                /\ LET actions == tracker'.lastActions
                       n == Len(actions)
                   IN  /\ categoryTable[actions[n]] = categoryTable[actions[n - 1]]
                       /\ categoryTable[actions[n]] = categoryTable[actions[n - 2]]
               THEN "stalled"
             ELSE IF tracker'.storyBeats.plotPointsRevealed # <<>>
                       \/ tracker'.storyBeats.conflictsIntroduced # <<>> THEN "fast"
             ELSE IF tracker'.sceneCounter > 2 THEN "slow"
             ELSE "steady"
        /\ tracker'.lastActions =
             <<"look at the tree", "examine the rock", "look under the log">>
             => tracker'.momentum = "stalled" ]_vars

\* The three examine actions, the first with a narrative that records a conflict:
\* momentum is "stalled", not "fast"
C20_Witness ==
  /\ last.op = "updateFromNarrative"
  /\ tracker.storyBeats.conflictsIntroduced # <<>>
  /\ tracker.lastActions = <<"look at the tree", "examine the rock", "look under the log">>
  /\ tracker.momentum = "stalled"

----------------------------------------------------------------------------
(* Claims on interventions, death and restart *)

\* C21: needsIntervention returns the first rule that matches, in the order
\* momentum stalled (INJECT_COMPLICATION), sceneCounter > 3 with tension low
\* (INCREASE_TENSION), last three actions in one bucket (FORCE_CHANGE),
\* sceneCounter > 5 with no plot point revealed (REVEAL_PLOT), else no
\* intervention; and it leaves the tracker state as it was
C21_FirstMatchingRule ==
  [][ last'.op = "needsIntervention" =>
        LET stalled == tracker.momentum = "stalled"
            peaceful == tracker.sceneCounter > 3 /\ tracker.tension = "low"
            repetitive ==
              /\ Len(tracker.lastActions) >= 3
              /\ LET actions == tracker.lastActions
                     n == Len(actions)
                 IN  /\ categoryTable[actions[n]] = categoryTable[actions[n - 1]]
                     /\ categoryTable[actions[n]] = categoryTable[actions[n - 2]]
            noPlot == tracker.sceneCounter > 5 /\ tracker.storyBeats.plotPointsRevealed = <<>>
        IN  /\ tracker' = tracker
            /\ last'.ret.needed = (stalled \/ peaceful \/ repetitive \/ noPlot)
            /\ last'.ret.intervention =
                 CASE stalled -> "INJECT_COMPLICATION"
                   [] ~stalled /\ peaceful -> "INCREASE_TENSION"
                   [] ~stalled /\ ~peaceful /\ repetitive -> "FORCE_CHANGE"
                   [] ~stalled /\ ~peaceful /\ ~repetitive /\ noPlot -> "REVEAL_PLOT"
                   [] OTHER -> "" ]_vars

\* Six scenes without a plot point, the last three actions in one bucket,
\* momentum and tension as a resurrection left them: the repetition wins over
\* the missing plot
C21_Witness ==
  /\ last.op = "needsIntervention"
  /\ last.ret.intervention = "FORCE_CHANGE"
  /\ tracker.sceneCounter > 5
  /\ tracker.storyBeats.plotPointsRevealed = <<>>
  /\ tracker.momentum = "steady"
  /\ tracker.tension = "medium"

\* C22 as stated: a dead player becomes alive only through
\* recordPlayerResurrection, with tension medium and momentum steady after it
C22_OnlyResurrectionRevives ==
  [][ (~tracker.playerStatus.alive /\ tracker'.playerStatus.alive) =>
        /\ last'.op = "recordPlayerResurrection"
        /\ tracker'.tension = "medium"
        /\ tracker'.momentum = "steady" ]_vars

\* C22: playerStatus.alive goes from true to false only through
\* recordPlayerDeath; it goes from false to true through
\* recordPlayerResurrection, which sets tension medium and momentum steady, and
\* through resetForRestart, which sets tension low and momentum slow;
\* updateFromNarrative, needsIntervention, checkForDeathTriggers and
\* recordChoice leave it as it was
C22_DeathMachine ==
  [][ /\ (tracker.playerStatus.alive /\ ~tracker'.playerStatus.alive)
           => last'.op = "recordPlayerDeath"
      /\ (~tracker.playerStatus.alive /\ tracker'.playerStatus.alive)
           => \/ /\ last'.op = "recordPlayerResurrection"
                 /\ tracker'.tension = "medium"
                 /\ tracker'.momentum = "steady"
              \/ /\ last'.op = "resetForRestart"
                 /\ tracker'.tension = "low"
                 /\ tracker'.momentum = "slow"
      /\ last'.op \in { "updateFromNarrative", "needsIntervention",
                        "checkForDeathTriggers", "recordChoice" }
           => tracker'.playerStatus.alive = tracker.playerStatus.alive ]_vars

\* resetForRestart called on a dead player: the player is alive after it
C22_Witness ==
  /\ last.op = "resetForRestart"
  /\ ~last.before.playerStatus.alive
  /\ tracker.playerStatus.alive
  /\ tracker.tension = "low"

\* C23 as stated: resetForRestart keeps deathCount and deathEvents and sets
\* every other field to its initial value
C23_ResetKeepsOnlyCountAndLog ==
  [][ last'.op = "resetForRestart" =>
        tracker' =
          [ NewTrackerState EXCEPT
              !.playerStatus = [@ EXCEPT !.deathCount = tracker.playerStatus.deathCount],
              !.storyBeats = [@ EXCEPT !.deathEvents = tracker.storyBeats.deathEvents] ] ]_vars

\* C23: resetForRestart leaves playerStatus.deathCount,
\* playerStatus.hasExperiencedDeath and storyBeats.deathEvents as they were and
\* sets every other field to its initial value: sceneCounter 0, empty
\* lastActions, lastNarratives and playerChoiceHistory, empty characters,
\* locations, plot points and conflicts, tension low, momentum slow, alive true
C23_ResetKeepsDeathRecord ==
  [][ last'.op = "resetForRestart" =>
        /\ tracker'.playerStatus.deathCount = tracker.playerStatus.deathCount
        /\ tracker'.playerStatus.hasExperiencedDeath = tracker.playerStatus.hasExperiencedDeath
        /\ tracker'.storyBeats.deathEvents = tracker.storyBeats.deathEvents
        /\ tracker'.playerStatus.alive
        /\ tracker'.playerStatus.lastDeathReason = Null
        /\ tracker'.sceneCounter = 0
        /\ tracker'.lastActions = <<>>
        /\ tracker'.lastNarratives = <<>>
        /\ tracker'.playerChoiceHistory = <<>>
        /\ tracker'.storyBeats.introducedCharacters = <<>>
        /\ tracker'.storyBeats.visitedLocations = <<>>
        /\ tracker'.storyBeats.plotPointsRevealed = <<>>
        /\ tracker'.storyBeats.conflictsIntroduced = <<>>
        /\ tracker'.storyBeats.conflictsResolved = <<>>
        /\ tracker'.tension = "low"
        /\ tracker'.momentum = "slow"
        /\ tracker'.currentScene = "introduction"
        /\ tracker'.lastSignificantEvent = Null ]_vars

\* resetForRestart after scenes, a recorded choice, a conflict and a death
C23_Witness ==
  /\ last.op = "resetForRestart"
  /\ last.before.sceneCounter > 0
  /\ last.before.playerChoiceHistory # <<>>
  /\ last.before.storyBeats.conflictsIntroduced # <<>>
  /\ last.before.playerStatus.deathCount = 1
  /\ tracker.playerStatus.deathCount = 1
  /\ tracker.playerStatus.hasExperiencedDeath
  /\ tracker.storyBeats.deathEvents # <<>>
  /\ tracker.sceneCounter = 0

\* C30: lastActions and lastNarratives never hold more than 5 entries; each
\* updateFromNarrative appends its action and its narrative and, when that
\* makes 6, drops the oldest entry; resetForRestart empties both and no other
\* call changes them
C30_HistoryWindows ==
  [][ /\ Len(tracker'.lastActions) <= 5
      /\ Len(tracker'.lastNarratives) <= 5
      /\ last'.op = "updateFromNarrative" =>
           LET window(old, item) ==
                 [ k \in 1..(IF Len(old) = 5 THEN 5 ELSE Len(old) + 1) |->
                     IF Len(old) = 5
                       THEN (IF k = 5 THEN item ELSE old[k + 1])
                       ELSE (IF k = Len(old) + 1 THEN item ELSE old[k]) ]
           IN  /\ tracker'.lastActions = window(tracker.lastActions, last'.userAction)
               /\ tracker'.lastNarratives = window(tracker.lastNarratives, last'.narrative)
      /\ last'.op = "resetForRestart" =>
           tracker'.lastActions = <<>> /\ tracker'.lastNarratives = <<>>
      /\ last'.op \notin {"updateFromNarrative", "resetForRestart"} =>
           /\ tracker'.lastActions = tracker.lastActions
           /\ tracker'.lastNarratives = tracker.lastNarratives ]_vars

\* The sixth scene: the first narrative and the first action have been dropped
C30_Witness ==
  /\ last.op = "updateFromNarrative"
  /\ tracker.sceneCounter = 6
  /\ tracker.lastNarratives =
       << "The forest is quiet", "Danger! An attack", "Danger! An attack",
          "The forest is quiet", "The forest is quiet" >>
  /\ tracker.lastActions =
       <<"go north", "look at the tree", "look at the tree", "go north", "go north">>

----------------------------------------------------------------------------
(* Claims on the beats triggered in one turn *)

\* C24: triggeredBeats of one analyzeAndTriggerBeats call is the sequence, in
\* declaration order, of all the beats of the story that pass the trigger
\* checks against the state read at the start of the turn: the evaluation does
\* not stop at the first match and no triggered beat is dropped
C24_AllPassingBeatsInOrder ==
  [][ last'.op = "analyzeAndTriggerBeats" =>
        LET p == last'.pair
            read == StoreAfterGetOrCreate(storyStates, p[1], p[2], DefaultLocation, now)[KeyOf(p)]
            beats == loadStoryBeats(p[1])
            passing == {i \in 1..Len(beats) :
                          shouldTriggerBeat(beats[i], read, last'.playerAction, last'.actionType)}
        IN  /\ Len(last'.triggeredBeats) = Cardinality(passing)
            /\ \A k \in 1..Len(last'.triggeredBeats) :
                 \E i \in passing :
                   /\ Cardinality({j \in passing : j < i}) = k - 1
                   /\ last'.triggeredBeats[k] = beats[i].id ]_vars

\* A turn with two beats triggered, the second and the fifth declared, the
\* beats between them failing their prerequisites
C24_Witness ==
  /\ last.op = "analyzeAndTriggerBeats"
  /\ last.triggeredBeats = <<"B1", "elder_oak_wisdom">>

\* C25: a beat with a non-empty prerequisites list is in triggeredBeats only
\* if, in the state read at the start of the turn, every prerequisite is an id
\* in completedBeats or a key of storyFlags whose value is true
C25_PrerequisitesMetBeforeTheTurn ==
  [][ last'.op = "analyzeAndTriggerBeats" =>
        LET p == last'.pair
            read == StoreAfterGetOrCreate(storyStates, p[1], p[2], DefaultLocation, now)[KeyOf(p)]
            beats == loadStoryBeats(p[1])
        IN  \A i \in 1..Len(beats) :
              (Len(beats[i].prerequisites) > 0 /\ Contains(last'.triggeredBeats, beats[i].id))
                => \A j \in 1..Len(beats[i].prerequisites) :
                     LET prereq == beats[i].prerequisites[j]
                     IN  \/ \E c \in 1..Len(read.completedBeats) : read.completedBeats[c] = prereq
                         \/ /\ Chars(prereq) \in DOMAIN read.storyFlags
                            /\ read.storyFlags[Chars(prereq)] = TRUE ]_vars

\* A turn that triggers shadow_gate, whose prerequisite is a flag set by the
\* choices of a beat of an earlier turn, and whiskers_first_meeting is completed,
\* whose prerequisite is a beat id
C25_Witness ==
  /\ last.op = "analyzeAndTriggerBeats"
  /\ Contains(last.triggeredBeats, "shadow_gate")
  /\ Contains(Stored(last.pair).completedBeats, "whiskers_first_meeting")

\* C26: after a turn in which a beat is triggered, a non-repeatable beat is in
\* completedBeats and not in activeBeats of the stored state; a repeatable beat
\* is in activeBeats exactly once, and it is in completedBeats as often as
\* before the call
C26_TriggeredBeatPlacement ==
  [][ last'.op = "analyzeAndTriggerBeats" =>
        LET p == last'.pair
            after == storyStates'[KeyOf(p)]
            completedBefore ==
              IF KeyOf(p) \in DOMAIN storyStates THEN storyStates[KeyOf(p)].completedBeats
              ELSE <<>>
            beats == loadStoryBeats(p[1])
            count(seq, x) == Cardinality({k \in 1..Len(seq) : seq[k] = x})
        IN  \A i \in 1..Len(beats) :
              Contains(last'.triggeredBeats, beats[i].id) =>
                IF beats[i].repeatable
                  THEN /\ count(after.activeBeats, beats[i].id) = 1
                       /\ count(after.completedBeats, beats[i].id)
                            = count(completedBefore, beats[i].id)
                  ELSE /\ count(after.completedBeats, beats[i].id) >= 1
                       /\ count(after.activeBeats, beats[i].id) = 0 ]_vars

\* A turn on a known session that triggers the repeatable elder_oak_wisdom
\* together with the non-repeatable B1
C26_Witness ==
  /\ last.op = "analyzeAndTriggerBeats"
  /\ last.known
  /\ Contains(last.triggeredBeats, "elder_oak_wisdom")
  /\ Contains(last.triggeredBeats, "B1")
  /\ Contains(Stored(last.pair).completedBeats, "B1")
  /\ Contains(Stored(last.pair).activeBeats, "elder_oak_wisdom")
  /\ ~Contains(Stored(last.pair).completedBeats, "elder_oak_wisdom")

----------------------------------------------------------------------------
(* Claims on context expansion *)

\* C27 as stated: every entry returned by searchStoryContextEnhanced has
\* totalScore > 0, the entries appended by context expansion included
C27_EveryEntryScoresAboveZero ==
  last.op = "searchStoryContextEnhanced" =>
    \A i \in 1..Len(last.ret) : getTotalScore(last.ret[i]) > 0

\* C27: every entry of the list returned by searchStoryContextEnhanced that was
\* scored against the query (the first min(maxResults, number of documents
\* scoring above zero)) has totalScore > 0; the entries after them were appended
\* by context expansion, each a document related to one of the scored entries,
\* and they are not filtered: an appended entry may total 0
C27_ScoredEntriesAboveZero ==
  last.op = "searchStoryContextEnhanced" =>
    /\ directCount <= Len(last.ret)
    /\ \A i \in 1..directCount : getTotalScore(last.ret[i]) > 0
    /\ \A j \in (directCount + 1)..Len(last.ret) :
         \E i \in 1..directCount, d \in 1..Len(last.documents) :
           /\ last.documents[d].metadata = last.ret[j].metadata
           /\ relatedTable[last.ret[i].metadata, last.documents[d]]

\* A search that returned an appended entry that totals 0
C27_Witness ==
  /\ last.op = "searchStoryContextEnhanced"
  /\ \E j \in (directCount + 1)..Len(last.ret) : getTotalScore(last.ret[j]) = 0
  /\ \E d \in 1..Len(last.documents) :
       getTotalScore(scored(last.documents[d], baseScoreTable[last.documents[d], last.query],
                            Stored(last.pair))) <= 0

\* C28: context expansion only appends: the top results (the documents scoring
\* above zero, sorted and cut to maxResults) stand at the front of the returned
\* list with their scores, every appended entry has relevanceScore 0 and a
\* metadata.id different from every entry before it, and nothing is appended to
\* a list of 12 entries
C28_ExpansionOnlyAppends ==
  last.op = "searchStoryContextEnhanced" =>
    LET top == slice(sortByTotal(positiveOnly(
                       scoredResults(last.documents, last.query, Stored(last.pair)))),
                     last.maxResults)
    IN  /\ Len(last.ret) >= Len(top)
        /\ SubSeq(last.ret, 1, Len(top)) = top
        /\ \A j \in (Len(top) + 1)..Len(last.ret) :
             /\ last.ret[j].relevanceScore = 0
             /\ \A i \in 1..(j - 1) : last.ret[i].metadata.id # last.ret[j].metadata.id
        /\ Len(last.ret) > Len(top) => Len(last.ret) <= 12

\* One top result and eleven appended entries, three related documents left out
C28_Witness ==
  /\ last.op = "searchStoryContextEnhanced"
  /\ last.maxResults = 1
  /\ Len(last.documents) = 15
  /\ last.ret[1].relevanceScore > 0
  /\ Len(last.ret) = 12

\* C29 as stated: for a character R among the top results, another character
\* document D is related exactly when R's id, lowercased, is a substring of D's
\* content or D's id, lowercased, is a substring of R's content
C29_CharactersRelatedByEitherId ==
  last.op = "searchStoryContextEnhanced" =>
    \A r \in 1..directCount, d \in 1..Len(last.documents) :
      LET R == last.ret[r]
          D == last.documents[d]
      IN  (R.metadata.type = "character" /\ D.metadata.type = "character"
             /\ D.metadata.id # R.metadata.id)
            => (relatedTable[R.metadata, D]
                  <=> \/ includes(toLowerCase(Chars(D.content)),
                                  toLowerCase(Chars(R.metadata.id)))
                      \/ includes(toLowerCase(Chars(R.content)),
                                  toLowerCase(Chars(D.metadata.id))))

----------------------------------------------------------------------------
(* Claims on the isolation of sessions *)

\* C31: sessions are isolated: a call made for one (storyId, sessionId) pair
\* leaves the StoryState of every other pair as it was, and creates no state
\* for another pair; this includes pairs whose ids contain "-"
C31_SessionsIsolated ==
  [][ \A p \in Pairs, q \in Pairs :
        ( /\ p # q
          /\ last'.op \in { "getOrCreateStoryState", "updateStoryState",
                            "recordPlayerChoice", "analyzeAndTriggerBeats" }
          /\ last'.pair = p )
        => IF KeyOf(q) \in DOMAIN storyStates
             THEN /\ KeyOf(q) \in DOMAIN storyStates'
                  /\ storyStates'[KeyOf(q)] = storyStates[KeyOf(q)]
             ELSE KeyOf(q) \notin DOMAIN storyStates' ]_vars

----------------------------------------------------------------------------
(* Claims on the checks of a turn *)

\* C32: the checks of a turn are made against the state read at its start: a
\* beat with a prerequisite (a beat id or a can_access_ flag) that the state
\* read did not satisfy, and that a beat triggered in the same turn satisfies
\* in the modifications of the turn, is not in triggeredBeats of that turn
C32_SameTurnPrerequisiteNotCounted ==
  [][ last'.op = "analyzeAndTriggerBeats" =>
        LET read == StoreAfterGetOrCreate(storyStates, last'.pair[1], last'.pair[2],
                                          DefaultLocation, now)[KeyOf(last'.pair)]
        IN  \A i \in 1..Len(StoryBeats) :
              \A j \in 1..Len(StoryBeats[i].prerequisites) :
                ( /\ ~prereqSatisfied(read, StoryBeats[i].prerequisites[j])
                  /\ prereqSatisfied(last'.contextModifications,
                                     StoryBeats[i].prerequisites[j]) )
                => ~Contains(last'.triggeredBeats, StoryBeats[i].id) ]_vars

\* The empty action on a fresh session: opening_choice triggers and sets
\* can_access_shadow_gate, the triggers of shadow_gate match the action, and
\* shadow_gate is not triggered in that turn
C32_Witness ==
  /\ last.op = "analyzeAndTriggerBeats"
  /\ last.playerAction = ""
  /\ actionTriggerTable[<<"enter gate">>, "", last.actionType]
  /\ Contains(last.triggeredBeats, "opening_choice")
  /\ ~Contains(last.triggeredBeats, "shadow_gate")
  /\ prereqSatisfied(Stored(last.pair), "can_access_shadow_gate")
  /\ ~Contains(Stored(last.pair).completedBeats, "shadow_gate")

\* C33: the empty action passes the action-trigger check of every beat with a
\* non-empty triggers list, and on a fresh session it triggers every beat that
\* has no prerequisites, no dialogue_triggers and no gating by its type
C33_EmptyActionPassesEveryTrigger ==
  [][ (last'.op = "analyzeAndTriggerBeats" /\ last'.playerAction = "") =>
        LET read == StoreAfterGetOrCreate(storyStates, last'.pair[1], last'.pair[2],
                                          DefaultLocation, now)[KeyOf(last'.pair)]
            fresh == /\ read.completedBeats = <<>>
                     /\ read.discoveredCharacters = <<>>
                     /\ read.playerChoices = <<>>
                     /\ read.storyFlags = EmptyMap
        IN  \A i \in 1..Len(StoryBeats) :
              /\ Len(StoryBeats[i].triggers) > 0
                   => /\ matchesActionTriggers(StoryBeats[i].triggers, "", last'.actionType)
                      /\ actionTriggerTable[StoryBeats[i].triggers, "", last'.actionType]
              /\ ( /\ fresh
                   /\ StoryBeats[i].prerequisites = <<>>
                   /\ StoryBeats[i].dialogue_triggers = <<>>
                   /\ StoryBeats[i].type \notin {"character_introduction", "exposition_lore"} )
                 => Contains(last'.triggeredBeats, StoryBeats[i].id) ]_vars

\* The empty action, without actionType, on a session the call creates: the two
\* beats without prerequisites, dialogue_triggers and gating are triggered
C33_Witness ==
  /\ last.op = "analyzeAndTriggerBeats"
  /\ last.playerAction = ""
  /\ last.actionType = Null
  /\ ~last.known
  /\ last.triggeredBeats = <<"opening_choice", "B1">>

\* Some trigger of the list holds a keyword of the class of the action type: the
\* values of matchesActionType over the trigger lists of the story, computed once
typeKeywordTable ==
  [ triggers \in TriggerLists, ty \in ActionTypes |->
      \E k \in 1..Len(triggers) :
        \E w \in 1..Len(actionTypeMap(ty)) :
          includes(toLowerCase(Chars(triggers[k])), Chars(actionTypeMap(ty)[w])) ]

\* C34: with an actionType whose keyword class has a keyword inside one of a
\* beat's triggers, the action-trigger check of that beat gives the same result
\* for every action string
C34_ActionTypeMatchIgnoresText ==
  [][ (last'.op = "analyzeAndTriggerBeats" /\ last'.actionType # Null) =>
        \A i \in 1..Len(StoryBeats) :
          typeKeywordTable[StoryBeats[i].triggers, last'.actionType]
          => \A a \in PlayerActions \cup OddActions :
               actionTriggerTable[StoryBeats[i].triggers, a, last'.actionType]
                 = actionTriggerTable[StoryBeats[i].triggers, last'.playerAction,
                                      last'.actionType] ]_vars

\* "choose path" with actionType "exploration" triggers B1, whose trigger
\* "examine door" holds the keyword "examine" and no word of the action
C34_Witness ==
  /\ last.op = "analyzeAndTriggerBeats"
  /\ last.playerAction = "choose path"
  /\ last.actionType = "exploration"
  /\ ~actionTriggerTable[<<"examine door">>, "choose path", Null]
  /\ Contains(last.triggeredBeats, "B1")

----------------------------------------------------------------------------
(* Claims on the available beats *)

\* C35: getAvailableBeats returns exactly the beats, in declaration order, that
\* are repeatable or not in completedBeats and whose prerequisites are all
\* satisfied; triggeredBeats of a turn is a subset of what getAvailableBeats
\* gives on the state the turn reads, and of what it returned just before
C35_TriggeredWithinAvailable ==
  [][ /\ last'.op = "getAvailableBeats" =>
           LET state == storyStates'[KeyOf(last'.pair)]
           IN  /\ \A i \in 1..Len(StoryBeats) :
                    Contains(last'.ret, StoryBeats[i].id)
                      <=> /\ StoryBeats[i].repeatable
                               \/ ~Contains(state.completedBeats, StoryBeats[i].id)
                          /\ \A j \in 1..Len(StoryBeats[i].prerequisites) :
                               \/ Contains(state.completedBeats, StoryBeats[i].prerequisites[j])
                               \/ /\ Chars(StoryBeats[i].prerequisites[j]) \in DOMAIN state.storyFlags
                                  /\ state.storyFlags[Chars(StoryBeats[i].prerequisites[j])] = TRUE
               /\ \A i \in 1..Len(last'.ret), j \in 1..Len(last'.ret) :
                    i < j => \E a \in 1..Len(StoryBeats), b \in 1..Len(StoryBeats) :
                               a < b /\ StoryBeats[a].id = last'.ret[i]
                                     /\ StoryBeats[b].id = last'.ret[j]
      /\ last'.op = "analyzeAndTriggerBeats" =>
           LET read == StoreAfterGetOrCreate(storyStates, last'.pair[1], last'.pair[2],
                                             DefaultLocation, now)[KeyOf(last'.pair)]
           IN  /\ \A k \in 1..Len(last'.triggeredBeats) :
                    Contains(getAvailableBeats(last'.pair[1], read), last'.triggeredBeats[k])
               /\ (last.op = "getAvailableBeats" /\ last.pair = last'.pair)
                    => \A k \in 1..Len(last'.triggeredBeats) :
                         Contains(last.ret, last'.triggeredBeats[k]) ]_vars

\* A turn that triggers the repeatable beat elder_oak_wisdom while it is in
\* completedBeats: four beats were available before the turn, one triggered
C35_Witness ==
  /\ last.op = "analyzeAndTriggerBeats"
  /\ last.triggeredBeats = <<"elder_oak_wisdom">>
  /\ Contains(Stored(last.pair).completedBeats, "elder_oak_wisdom")
  /\ Len(getAvailableBeats(last.pair[1], Stored(last.pair))) > 1

----------------------------------------------------------------------------
(* Claims on the lists of a session *)

\* C36: with beat ids unique within each story, completedBeats and
\* discoveredCharacters of every session hold no id twice, after any sequence
\* of analyzeAndTriggerBeats and recordPlayerChoice calls made one at a time
C36_NoDuplicateIds ==
  \A k \in DOMAIN storyStates :
    /\ \A i \in 1..Len(storyStates[k].completedBeats) :
         \A j \in 1..Len(storyStates[k].completedBeats) :
           i # j => storyStates[k].completedBeats[i] # storyStates[k].completedBeats[j]
    /\ \A i \in 1..Len(storyStates[k].discoveredCharacters) :
         \A j \in 1..Len(storyStates[k].discoveredCharacters) :
           i # j => storyStates[k].discoveredCharacters[i]
                      # storyStates[k].discoveredCharacters[j]

\* One turn on story "duo" triggers both beats that introduce whiskers, and a
\* choice has been recorded on a completed beat of the other session
C36_Witness ==
  /\ last.op = "analyzeAndTriggerBeats"
  /\ last.triggeredBeats = <<"whiskers_first_meeting", "whiskers_returns">>
  /\ Stored(last.pair).discoveredCharacters = <<"whiskers">>
  /\ Stored(last.pair).completedBeats = <<"whiskers_first_meeting", "whiskers_returns">>
  /\ KeyOf(PlayPair) \in DOMAIN storyStates
  /\ Stored(PlayPair).completedBeats = <<"B1">>
  /\ Len(Stored(PlayPair).playerChoices) = 1

----------------------------------------------------------------------------
(* Claims on retrieval after a completed beat *)

\* C37: once completedBeats of the session is not empty, every document with a
\* storyWeight absent or not negative has storyRelevanceScore >= 2; in a corpus
\* of such documents the score filter removes no document, and the search
\* returns min(maxResults, corpus size) directly scored entries, for every
\* query, the empty query included
C37_ProgressionKeepsEveryDocument ==
  ( /\ last.op = "searchStoryContextEnhanced"
    /\ ~last.threw
    /\ Stored(last.pair).completedBeats # <<>> )
  => /\ \A i \in 1..Len(last.documents) :
          last.documents[i].metadata.storyWeight >= 0
            => calculateStoryRelevanceScore(last.documents[i], Stored(last.pair)) >= 2
     /\ (\A i \in 1..Len(last.documents) : last.documents[i].metadata.storyWeight >= 0)
          => /\ positiveOnly(scoredResults(last.documents, last.query, Stored(last.pair)))
                  = scoredResults(last.documents, last.query, Stored(last.pair))
             /\ directCount = Min(last.maxResults, Len(last.documents))
             /\ Len(last.ret) >= Min(last.maxResults, Len(last.documents))
             /\ \A i \in 1..Min(last.maxResults, Len(last.documents)) :
                  \E d \in 1..Len(last.documents) :
                    /\ last.ret[i] = scored(last.documents[d],
                                            baseScoreTable[last.documents[d], last.query],
                                            Stored(last.pair))
                    /\ last.ret[i].storyRelevanceScore >= 2

\* The empty query on the corpus of fifteen documents with maxResults 13, after a
\* turn completed a beat: thirteen entries, of which the last totals 2, from the
\* progression bonus alone
C37_Witness ==
  /\ last.op = "searchStoryContextEnhanced"
  /\ last.query = ""
  /\ last.documents = LargeCorpus
  /\ last.maxResults = 13
  /\ Len(Stored(last.pair).completedBeats) = 1
  /\ Len(last.ret) = 13
  /\ getTotalScore(last.ret[13]) = 2

----------------------------------------------------------------------------
(* Claims on the pacing tracker over a longer story *)

\* C38: in the states reached without a resurrection since the tracker was
\* created or reset, momentum is "stalled" exactly when the last three recorded
\* actions share a bucket, and needsIntervention does not return FORCE_CHANGE;
\* the same holds right after every updateFromNarrative; the only call after
\* which FORCE_CHANGE comes to be returned is recordPlayerResurrection
C38_ForceChangeOnlyAfterResurrection ==
  [][ /\ (tracker'.currentScene # "post_resurrection" \/ last'.op = "updateFromNarrative")
           => /\ (tracker'.momentum = "stalled") <=> hasRepetitiveActions(tracker'.lastActions)
              /\ needsIntervention(tracker').intervention # "FORCE_CHANGE"
      /\ ( /\ needsIntervention(tracker).intervention # "FORCE_CHANGE"
           /\ needsIntervention(tracker').intervention = "FORCE_CHANGE" )
           => last'.op = "recordPlayerResurrection"
      /\ (last'.op = "needsIntervention" /\ last'.ret.intervention = "FORCE_CHANGE")
           => /\ tracker'.currentScene = "post_resurrection"
              /\ tracker'.momentum = "steady"
              /\ hasRepetitiveActions(tracker'.lastActions) ]_vars

\* Three moves, death and resurrection: momentum is "steady" over three actions
\* of one bucket, and needsIntervention returns FORCE_CHANGE
C38_Witness ==
  /\ last.op = "needsIntervention"
  /\ last.ret.intervention = "FORCE_CHANGE"
  /\ tracker.currentScene = "post_resurrection"
  /\ tracker.lastActions = <<"go north", "go north", "go north">>
  /\ tracker.sceneCounter = 3
  /\ tracker.playerStatus.deathCount = 1

\* C39: in every state of the pacing tracker deathCount is the number of
\* entries of deathEvents and hasExperiencedDeath is true exactly when
\* deathCount > 0, and no call lowers deathCount
C39_DeathCountMatchesLog ==
  [][ /\ tracker'.playerStatus.deathCount = Len(tracker'.storyBeats.deathEvents)
      /\ tracker'.playerStatus.hasExperiencedDeath <=> tracker'.playerStatus.deathCount > 0
      /\ tracker'.playerStatus.deathCount >= tracker.playerStatus.deathCount
      /\ tracker.playerStatus.deathCount = Len(tracker.storyBeats.deathEvents)
      /\ tracker.playerStatus.hasExperiencedDeath <=> tracker.playerStatus.deathCount > 0 ]_vars

\* A restart after a death, then one more scene: the death is
\* still counted and logged
C39_Witness ==
  /\ last.op = "updateFromNarrative"
  /\ tracker.currentScene = "introduction"
  /\ tracker.sceneCounter = 1
  /\ tracker.playerStatus.alive
  /\ tracker.playerStatus.deathCount = 1
  /\ tracker.playerStatus.hasExperiencedDeath
  /\ Len(tracker.storyBeats.deathEvents) = 1

\* C40: with sceneCounter above 15 checkForDeathTriggers reports a death for
\* every action, the exhaustion death for an action that matches no trigger
\* keyword; it changes nothing in the tracker; recordPlayerResurrection leaves
\* sceneCounter as it was, so the report stays; the only call that brings
\* sceneCounter back to 15 or less is resetForRestart
C40_ExhaustionUntilRestart ==
  [][ /\ last'.op = "checkForDeathTriggers"
           => /\ tracker' = tracker
              /\ tracker.sceneCounter > 15
                   => /\ last'.ret.isDeath
                      /\ \A a \in {"I smash torch in anger", "go north"} :
                           checkForDeathTriggers(tracker, a).isDeath
                      /\ last'.userAction = "go north"
                           => last'.ret.deathType = "exhaustion_death"
              /\ (tracker.sceneCounter <= 15 /\ last'.userAction = "go north")
                   => ~last'.ret.isDeath
      /\ last'.op = "recordPlayerResurrection"
           => /\ tracker'.sceneCounter = tracker.sceneCounter
              /\ tracker.sceneCounter > 15
                   => checkForDeathTriggers(tracker', "go north").deathType = "exhaustion_death"
      /\ (tracker.sceneCounter > 15 /\ tracker'.sceneCounter <= 15)
           => last'.op = "resetForRestart"
      /\ last'.op = "resetForRestart"
           => ~checkForDeathTriggers(tracker', "go north").isDeath ]_vars

\* Sixteen scenes, a death and a resurrection: an action without a trigger
\* keyword is still reported as the exhaustion death
C40_Witness ==
  /\ last.op = "checkForDeathTriggers"
  /\ last.userAction = "go north"
  /\ last.ret.deathType = "exhaustion_death"
  /\ tracker.sceneCounter = 16
  /\ tracker.currentScene = "post_resurrection"
  /\ tracker.playerStatus.alive
  /\ tracker.playerStatus.deathCount = 1
====
